---- MODULE Spec2Model ----
(***************************************************************************)
(* The audio mixer of mixer/src/main.cpp: the ingest path (addAgent) and   *)
(* the mix/send loop (sendBuffer) over the per-peer ring buffers.          *)
(*                                                                         *)
(* Offsets are sample offsets from sourceBuffers[b]->buffer, as in the     *)
(* pointer arithmetic of the source.  The memory of a ring buffer is kept  *)
(* frame by frame (cursors only ever move by whole frames); of the         *)
(* BUFFER_LENGTH_SAMPLES samples of a frame the model keeps the first      *)
(* NumLanes, since every loop over the samples of a frame treats each      *)
(* sample index alike.                                                     *)
(*                                                                         *)
(* A step is one call of addAgent, the mix phase of one cycle, or the send *)
(* phase of one cycle; addAgent may run between the two phases.  The clock *)
(* is not tied to the cycles: usleep bounds the time between two cycles    *)
(* from below only, and gettimeofday is the wall clock.                    *)
(*                                                                         *)
(* Spec, SpecRing, SpecSend, SpecBurst and SpecAdmit take these steps for  *)
(* different traffic; SpecConc takes the two threads statement by          *)
(* statement; SpecSched is the timing of the loop of sendBuffer.           *)
(*                                                                         *)
(* The module also holds the request bookkeeping of                        *)
(* libraries/networking/src/AssetClient.cpp (SpecAsset, and SpecIds for    *)
(* the wrap of the message id) and the landing tracker of                  *)
(* interface/src/octree/SafeLanding.cpp (SpecLanding, which splits a       *)
(* method at the point where it takes the lock).  The three programs share *)
(* no state: each specification leaves the variables of the others alone.  *)
(***************************************************************************)
EXTENDS Integers, Sequences, FiniteSets, TLC

VARIABLES
    agents,         \* agents[i]: [id, active, time, bufferTransmitted]
    numAgents,      \* number of registered agents
    sourceBuffers,  \* sourceBuffers[b]: [buffer, endOfLastWrite, nextOutput, started]
    masterMix,      \* the long accumulator of sendBuffer
    sendTime,       \* the time sendBuffer took at the start of the cycle
    pc,             \* where the mixer thread is: "mix" or "send"
    now,            \* the wall clock, in ms
    received,       \* number of frames delivered so far
    parity,         \* parity[id]: parity of the number of frames identity id has sent
    added,          \* added[b]: the frame buffer b added to masterMix this cycle
    previousOutput, \* previousOutput[a]: the offset the send phase subtracted, or NULL
    longSamples,    \* longSamples[a]: the exact values composed for agent a
    sent,           \* sent[a]: the frame handed to the socket for agent a this cycle
    sends,          \* the agents handed to the socket this cycle, in order
    reported,       \* the agents whose send was reported as failed this cycle
    outOfBounds,    \* sourceBuffers[] was indexed past its end
    ingest,         \* the call of addAgent in progress: [pc, i, id, frame]
    loop,           \* the loop index (b or a) of sendBuffer inside a phase
    sched,          \* the timing of sendBuffer: [pc, clock, startTime, currentFrame, ...]
    currentID,              \* AssetClient::_currentID
    pendingRequests,        \* _pendingRequests[node][messageID]: the request waiting, or 0
    pendingInfoRequests,    \* _pendingInfoRequests[node][messageID]
    pendingUploads,         \* _pendingUploads[node][messageID]
    pendingMappingRequests, \* _pendingMappingRequests[node][messageID]
    mappingCache,           \* _mappingCache[path]: the hash cached for path, or NoHash
    nodeList,               \* the nodes the NodeList holds
    requests,               \* the requests made so far, each with what its callback has done
    receiving,              \* the requests of getAsset whose reply is still arriving
    crashed,                \* the process has ended on a null message
    event,                  \* whether the last call was a reply, and whether it found an entry
    trackingEntities,             \* SafeLanding::_trackingEntities
    trackedEntities,              \* the keys of _trackedEntities
    trackedEntitiesRenderStatus,  \* the keys of _trackedEntitiesRenderStatus
    maxTrackedEntityCount,        \* _maxTrackedEntityCount
    entityTree,                   \* _entityTree is not null
    sequenceNumbers,              \* _sequenceNumbers, in the order of the set
    initialStart,                 \* _initialStart
    initialEnd,                   \* _initialEnd
    calls                         \* the calls of SafeLanding in progress: [add, note, load, result]

\* the state of AssetClient
assetVars == <<currentID, pendingRequests, pendingInfoRequests, pendingUploads,
               pendingMappingRequests, mappingCache, nodeList, requests,
               receiving, crashed, event>>

\* the state of SafeLanding
landingVars == <<trackingEntities, trackedEntities, trackedEntitiesRenderStatus,
                 maxTrackedEntityCount, entityTree, sequenceNumbers, initialStart,
                 initialEnd, calls>>

vars == <<agents, numAgents, sourceBuffers, masterMix, sendTime, pc, now,
          received, parity, added, previousOutput, longSamples, sent,
          sends, reported, outOfBounds, ingest, loop, sched, assetVars,
          landingVars>>

----------------------------------------------------------------------------
\* Program constants (main.cpp lines 18-41)

MAX_AGENTS == 1000
LOGOFF_CHECK_INTERVAL == 1000
BUFFER_LENGTH_BYTES == 1024
BUFFER_LENGTH_SAMPLES == BUFFER_LENGTH_BYTES \div 2     \* / sizeof(int16_t)
SAMPLE_RATE == 22050
\* (BUFFER_LENGTH_SAMPLES / SAMPLE_RATE) * 1000000, a float in the source
\* (23219.95...); the model keeps the whole usecs
BUFFER_SEND_INTERVAL_USECS == (BUFFER_LENGTH_SAMPLES * 1000000) \div SAMPLE_RATE
JITTER_BUFFER_MSECS == 20
JITTER_BUFFER_SAMPLES == (JITTER_BUFFER_MSECS * SAMPLE_RATE) \div 1000
RING_BUFFER_FRAMES == 10
RING_BUFFER_SAMPLES == RING_BUFFER_FRAMES * BUFFER_LENGTH_SAMPLES
MAX_SAMPLE_VALUE == 32767
MIN_SAMPLE_VALUE == -32768
MAX_SOURCE_BUFFERS == 20

----------------------------------------------------------------------------
\* Bounds of the model

NumIds == 3         \* distinct (address, port) identities that send frames
NumLanes == 2       \* samples of a frame that the model keeps
MaxFrames == 5      \* frames delivered in one run of Spec
MaxTicks == 1       \* clock steps in one run
MaxRingFrames == 11 \* frames delivered in one run of SpecRing
MaxConcFrames == 11 \* frames delivered in one run of SpecConc
MaxAdmitFrames == 22 \* frames delivered in one run of SpecAdmit
MaxCycles == 3      \* cycles of sendBuffer in one run of SpecSched
MaxSendFrames == 4  \* frames delivered in one run of SpecSend
MaxBurstFrames == 13 \* frames delivered in one run of SpecBurst
MaxLiveFrames == 2  \* frames counted in one run of SpecLive

Ids == 1 .. NumIds
Lanes == 1 .. NumLanes
Slots == 0 .. (MAX_SOURCE_BUFFERS - 1)
\* Of the MAX_AGENTS entries of agents[] the model keeps the first
\* MAX_SOURCE_BUFFERS + 1: the call of addAgent that reaches the entry after
\* the last ring buffer is the call that indexes sourceBuffers[] past its end.
AgentSlots == 0 .. MAX_SOURCE_BUFFERS
FrameIndex == 0 .. (RING_BUFFER_FRAMES - 1)

NULL == 0 - 1                   \* a null pointer: no offset into a buffer
NoFrame == <<>>                 \* nothing added / nothing sent
UNINIT == <<"uninitialized">>     \* memory of new int16_t[] never written

\* The signal of a peer: its frames alternate between one at both ends of the
\* int16_t range and a small one that tells the peers and the samples apart.
LoudFrame == [i \in Lanes |-> IF i % 2 = 1 THEN MAX_SAMPLE_VALUE ELSE MIN_SAMPLE_VALUE]
SoftFrame(id) == [i \in Lanes |-> 100 * id + i]
PeerFrame(id, k) == IF k = 0 THEN LoudFrame ELSE SoftFrame(id)

ZeroFrame == [i \in Lanes |-> 0]

----------------------------------------------------------------------------
\* AudioRingBuffer

\* AudioRingBuffer(ringBufferSamples): no write yet, read cursor at the start
NewRingBuffer ==
    [buffer |-> [k \in FrameIndex |-> UNINIT],
     endOfLastWrite |-> NULL,
     nextOutput |-> 0,
     started |-> FALSE]

\* backlog(): (w - r + C) mod C; no backlog before the first write
diffLastWriteNextOutput(rb) ==
    IF rb.endOfLastWrite = NULL
    THEN 0
    ELSE LET sampleDifference == rb.endOfLastWrite - rb.nextOutput
         IN IF sampleDifference < 0
            THEN sampleDifference + RING_BUFFER_SAMPLES
            ELSE sampleDifference

\* the frame stored at sample offset off of the buffer
FrameAt(rb, off) == rb.buffer[off \div BUFFER_LENGTH_SAMPLES]

----------------------------------------------------------------------------
\* sendBuffer, mix phase (lines 84-113)

\* HeldBack with the frame length alone as the threshold, strictly
HeldBack_BelowFrame(rb) ==
    /\ ~rb.started
    /\ diffLastWriteNextOutput(rb) < BUFFER_LENGTH_SAMPLES

\* HeldBack with the frame length taken in bytes
HeldBack_Bytes(rb) ==
    /\ ~rb.started
    /\ diffLastWriteNextOutput(rb) <= BUFFER_LENGTH_BYTES + JITTER_BUFFER_SAMPLES

\* HeldBack with the jitter threshold alone
HeldBack_JitterOnly(rb) ==
    /\ ~rb.started
    /\ diffLastWriteNextOutput(rb) <= JITTER_BUFFER_SAMPLES

\* lines 92-93: the test that holds a buffer back
HeldBack(rb) ==
    /\ ~rb.started
    /\ diffLastWriteNextOutput(rb) <= BUFFER_LENGTH_SAMPLES + JITTER_BUFFER_SAMPLES

\* line 95: the test for a starved buffer
Starved(rb) == diffLastWriteNextOutput(rb) < BUFFER_LENGTH_SAMPLES

\* AdvanceNextOutput wrapping one frame late
AdvanceNextOutput_Late(off) ==
    IF off + BUFFER_LENGTH_SAMPLES > RING_BUFFER_SAMPLES
    THEN 0
    ELSE off + BUFFER_LENGTH_SAMPLES

\* AdvanceNextOutput stepping over two frames
AdvanceNextOutput_TwoFrames(off) ==
    (off + 2 * BUFFER_LENGTH_SAMPLES) % RING_BUFFER_SAMPLES

\* lines 106-110: nextOutput += BUFFER_LENGTH_SAMPLES, wrapped at the end
AdvanceNextOutput(off) ==
    IF off + BUFFER_LENGTH_SAMPLES >= RING_BUFFER_SAMPLES
    THEN 0
    ELSE off + BUFFER_LENGTH_SAMPLES

\* conversion of a long to int16_t: the low 16 bits, as a signed value
ToInt16(x) ==
    LET m == x % 65536
    IN IF m >= 32768 THEN m - 65536 ELSE m

\* AddToMix into an accumulator as narrow as the samples
AddToMix_Narrow(mix, frame) == [s \in Lanes |-> ToInt16(mix[s] + frame[s])]

\* lines 102-104: masterMix[s] += nextOutput[s]
AddToMix(mix, frame) == [s \in Lanes |-> mix[s] + frame[s]]

\* MixBuffer that reports a starved buffer and leaves it started
MixBuffer_StaysStarted(st, b) ==
    LET rb == st.sourceBuffers[b]
    IN IF rb.endOfLastWrite = NULL THEN st
       ELSE IF HeldBack(rb) THEN st
       ELSE IF Starved(rb) THEN st
       ELSE [st EXCEPT
                !.sourceBuffers[b].started = TRUE,
                !.agents[b].bufferTransmitted = TRUE,
                !.masterMix = AddToMix(@, FrameAt(rb, rb.nextOutput)),
                !.added[b] = FrameAt(rb, rb.nextOutput),
                !.sourceBuffers[b].nextOutput = AdvanceNextOutput(@)]

\* MixBuffer that starts the master mix again at a buffer it passes over
MixBuffer_FailureClearsMix(st, b) ==
    LET rb == st.sourceBuffers[b]
    IN IF rb.endOfLastWrite = NULL THEN st
       ELSE IF HeldBack(rb) THEN [st EXCEPT !.masterMix = ZeroFrame]
       ELSE IF Starved(rb)
            THEN [st EXCEPT !.sourceBuffers[b].started = FALSE,
                            !.masterMix = ZeroFrame]
       ELSE [st EXCEPT
                !.sourceBuffers[b].started = TRUE,
                !.agents[b].bufferTransmitted = TRUE,
                !.masterMix = AddToMix(@, FrameAt(rb, rb.nextOutput)),
                !.added[b] = FrameAt(rb, rb.nextOutput),
                !.sourceBuffers[b].nextOutput = AdvanceNextOutput(@)]

\* lines 91-112: the body of the loop over the source buffers, on
\* st = [sourceBuffers, agents, masterMix, added]
MixBuffer(st, b) ==
    LET rb == st.sourceBuffers[b]
    IN IF rb.endOfLastWrite = NULL THEN st
       ELSE IF HeldBack(rb) THEN st
       ELSE IF Starved(rb)
            THEN [st EXCEPT !.sourceBuffers[b].started = FALSE]
       ELSE [st EXCEPT
                !.sourceBuffers[b].started = TRUE,
                !.agents[b].bufferTransmitted = TRUE,
                !.masterMix = AddToMix(@, FrameAt(rb, rb.nextOutput)),
                !.added[b] = FrameAt(rb, rb.nextOutput),
                !.sourceBuffers[b].nextOutput = AdvanceNextOutput(@)]

RECURSIVE MixLoop(_, _)
\* line 90: for (b = 0; b < MAX_SOURCE_BUFFERS; b++)
MixLoop(st, b) ==
    IF b >= MAX_SOURCE_BUFFERS THEN st ELSE MixLoop(MixBuffer(st, b), b + 1)

\* lines 84-113: zero the master mix, take sendTime, mix every buffer
MixPhase ==
    /\ pc = "mix"
    /\ ~outOfBounds
    /\ LET st == MixLoop([sourceBuffers |-> sourceBuffers,
                          agents |-> agents,
                          masterMix |-> ZeroFrame,
                          added |-> [b \in Slots |-> NoFrame]], 0)
       IN /\ sourceBuffers' = st.sourceBuffers
          /\ agents' = st.agents
          /\ masterMix' = st.masterMix
          /\ added' = st.added
    /\ sendTime' = now
    /\ pc' = "send"
    /\ previousOutput' = [a \in Slots |-> NULL]
    /\ longSamples' = [a \in Slots |-> NoFrame]
    /\ sent' = [a \in Slots |-> NoFrame]
    /\ sends' = <<>>
    /\ reported' = {}
    /\ UNCHANGED <<numAgents, now, received, parity, outOfBounds, ingest, loop, sched, assetVars, landingVars>>

----------------------------------------------------------------------------
\* sendBuffer, send phase (lines 115-156)

\* diffclock(&agents[a].time, &sendTime), in ms
diffclock(clock1, clock2) == clock2 - clock1

\* Live with the end of the window left out
Live_Strict(ag, t) == diffclock(ag.time, t) < LOGOFF_CHECK_INTERVAL

\* line 116: the agent is within the liveness window
Live(ag, t) == diffclock(ag.time, t) <= LOGOFF_CHECK_INTERVAL

\* lines 120-122: the frame before nextOutput
PreviousOutputOf(rb) ==
    IF rb.nextOutput = 0
    THEN RING_BUFFER_SAMPLES - BUFFER_LENGTH_SAMPLES
    ELSE rb.nextOutput - BUFFER_LENGTH_SAMPLES

Max(a, b) == IF a >= b THEN a ELSE b
Min(a, b) == IF a <= b THEN a ELSE b

\* ShortSample without the clamp
ShortSample_Wraps(longSample) == ToInt16(longSample)

\* lines 131-137: int16_t shortSample = max/min(longSample, ...)
ShortSample(longSample) ==
    IF longSample < 0
    THEN ToInt16(Max(longSample, MIN_SAMPLE_VALUE))
    ELSE ToInt16(Min(longSample, MAX_SAMPLE_VALUE))

\* LongSample that never subtracts
LongSample_MasterOnly(mix, rb, prev, s) == mix[s]

\* lines 127-129: the exact value composed for one sample
LongSample(mix, rb, prev, s) ==
    IF prev # NULL THEN mix[s] - FrameAt(rb, prev)[s] ELSE mix[s]

\* SendAgent that retires an agent found past the liveness window
SendAgent_Retires(st, a) ==
    IF Live(st.agents[a], sendTime)
    THEN LET prev == IF st.agents[a].bufferTransmitted
                     THEN PreviousOutputOf(sourceBuffers[a])
                     ELSE NULL
             long == [s \in Lanes |-> LongSample(masterMix, sourceBuffers[a], prev, s)]
         IN [st EXCEPT
                !.agents[a].bufferTransmitted = FALSE,
                !.previousOutput[a] = prev,
                !.longSamples[a] = long,
                !.sent[a] = [s \in Lanes |-> ShortSample(long[s])],
                !.sends = Append(@, a),
                !.reported = IF a \in st.shortWrites THEN @ \cup {a} ELSE @]
    ELSE [st EXCEPT !.agents[a].active = FALSE]

\* lines 116-155: the body of the loop over the agents, on
\* st = [agents, previousOutput, longSamples, sent, sends, reported,
\* shortWrites]; shortWrites are the agents for which audioSocket.send
\* returns fewer than BUFFER_LENGTH_BYTES bytes in this cycle
SendAgent(st, a) ==
    IF Live(st.agents[a], sendTime)
    THEN LET prev == IF st.agents[a].bufferTransmitted
                     THEN PreviousOutputOf(sourceBuffers[a])
                     ELSE NULL
             long == [s \in Lanes |-> LongSample(masterMix, sourceBuffers[a], prev, s)]
         IN [st EXCEPT
                !.agents[a].bufferTransmitted = FALSE,
                !.previousOutput[a] = prev,
                !.longSamples[a] = long,
                !.sent[a] = [s \in Lanes |-> ShortSample(long[s])],
                !.sends = Append(@, a),
                !.reported = IF a \in st.shortWrites THEN @ \cup {a} ELSE @]
    ELSE st

RECURSIVE SendLoop_Abort(_, _)
\* SendLoop that leaves the loop at the first send that comes back short
SendLoop_Abort(st, a) ==
    IF a >= numAgents \/ st.reported # {}
    THEN st
    ELSE SendLoop_Abort(SendAgent(st, a), a + 1)

RECURSIVE SendLoop(_, _)
\* line 115: for (a = 0; a < numAgents; a++)
SendLoop(st, a) ==
    IF a >= numAgents THEN st ELSE SendLoop(SendAgent(st, a), a + 1)

\* lines 115-156: the send phase of a cycle in which the sends to the agents
\* in shortWrites come back short
SendCycle(shortWrites) ==
    /\ pc = "send"
    /\ ~outOfBounds
    /\ LET st == SendLoop([agents |-> agents,
                           previousOutput |-> previousOutput,
                           longSamples |-> longSamples,
                           sent |-> sent,
                           sends |-> sends,
                           reported |-> reported,
                           shortWrites |-> shortWrites], 0)
       IN /\ agents' = st.agents
          /\ previousOutput' = st.previousOutput
          /\ longSamples' = st.longSamples
          /\ sent' = st.sent
          /\ sends' = st.sends
          /\ reported' = st.reported
    /\ pc' = "mix"
    /\ UNCHANGED <<numAgents, sourceBuffers, masterMix, sendTime, now, received,
                   parity, added, outOfBounds, ingest, loop, sched, assetVars, landingVars>>

\* a send phase in which every send takes the whole frame
SendPhase == SendCycle({})

\* a send phase in which the send to one registered agent comes back short
SendPhaseShort == \E a \in 0 .. (numAgents - 1) : SendCycle({a})

----------------------------------------------------------------------------
\* addAgent (lines 174-222)

\* FindAgent whose search starts at the second entry of the table
FindAgent_FromSecond(id) ==
    IF \E i \in 1 .. (numAgents - 1) : agents[i].id = id
    THEN CHOOSE i \in 1 .. (numAgents - 1) :
            /\ agents[i].id = id
            /\ \A j \in 1 .. (i - 1) : agents[j].id # id
    ELSE numAgents

\* lines 179-184: the index of the first agent with this identity, or numAgents
FindAgent(id) ==
    IF \E i \in 0 .. (numAgents - 1) : agents[i].id = id
    THEN CHOOSE i \in 0 .. (numAgents - 1) :
            /\ agents[i].id = id
            /\ \A j \in 0 .. (i - 1) : agents[j].id # id
    ELSE numAgents

\* AdvanceEndOfLastWrite wrapping one frame late
AdvanceEndOfLastWrite_Late(off) ==
    IF off + BUFFER_LENGTH_SAMPLES > RING_BUFFER_SAMPLES
    THEN 0
    ELSE off + BUFFER_LENGTH_SAMPLES

\* lines 211-215: endOfLastWrite += BUFFER_LENGTH_SAMPLES, wrapped at the end
AdvanceEndOfLastWrite(off) ==
    IF off + BUFFER_LENGTH_SAMPLES >= RING_BUFFER_SAMPLES
    THEN 0
    ELSE off + BUFFER_LENGTH_SAMPLES

\* PrepareWrite resetting a buffer already at the margin of one frame
PrepareWrite_AtMargin(rb) ==
    IF rb.endOfLastWrite = NULL
    THEN [rb EXCEPT !.endOfLastWrite = 0]
    ELSE IF diffLastWriteNextOutput(rb) >= RING_BUFFER_SAMPLES - BUFFER_LENGTH_SAMPLES
         THEN [rb EXCEPT !.endOfLastWrite = 0, !.nextOutput = 0, !.started = FALSE]
         ELSE rb

\* lines 200-207: first write, or reset of a buffer that is too full
PrepareWrite(rb) ==
    IF rb.endOfLastWrite = NULL
    THEN [rb EXCEPT !.endOfLastWrite = 0]
    ELSE IF diffLastWriteNextOutput(rb) > RING_BUFFER_SAMPLES - BUFFER_LENGTH_SAMPLES
         THEN [rb EXCEPT !.endOfLastWrite = 0, !.nextOutput = 0, !.started = FALSE]
         ELSE rb

\* lines 209-215: memcpy of the frame, advance of endOfLastWrite
WriteFrame(rb, frame) ==
    [rb EXCEPT
        !.buffer[rb.endOfLastWrite \div BUFFER_LENGTH_SAMPLES] = frame,
        !.endOfLastWrite = AdvanceEndOfLastWrite(@)]

\* lines 186-198: the agent entry after the call
AdmitAgent(ag, i, id) ==
    [id |-> id,
     active |-> TRUE,
     time |-> now,
     bufferTransmitted |->
        IF (i = numAgents) \/ (ag.active = FALSE) THEN FALSE ELSE ag.bufferTransmitted]

\* The whole call.  sourceBuffers[] has MAX_SOURCE_BUFFERS elements and no
\* line compares i with it: for i = MAX_SOURCE_BUFFERS line 200 reads a
\* pointer from past the end of the array and the behaviour is undefined from
\* there on (the call may fault there, or go on to count the agent).
AddAgent(id, frame) ==
    /\ ~outOfBounds
    /\ LET i == FindAgent(id)
       IN /\ agents' = [agents EXCEPT ![i] = AdmitAgent(@, i, id)]
          /\ IF i \in Slots
             THEN /\ sourceBuffers' =
                        [sourceBuffers EXCEPT ![i] = WriteFrame(PrepareWrite(@), frame)]
                  /\ numAgents' = IF i = numAgents THEN numAgents + 1 ELSE numAgents
                  /\ outOfBounds' = FALSE
             ELSE /\ outOfBounds' = TRUE
                  /\ sourceBuffers' = sourceBuffers
                  /\ \E completes \in BOOLEAN :
                        numAgents' = IF completes THEN numAgents + 1 ELSE numAgents
    /\ received' = received + 1
    /\ UNCHANGED <<masterMix, sendTime, pc, now, added, previousOutput, longSamples,
                   sent, sends, reported, ingest, loop, sched, assetVars, landingVars>>

\* main(), lines 282-291: a packet arrives and is handed to addAgent.  The
\* identities are named in the order of their first packet.
Receive ==
    \E id \in Ids :
        /\ received < MaxFrames
        /\ id <= numAgents + 1
        /\ AddAgent(id, PeerFrame(id, parity[id]))
        /\ parity' = [parity EXCEPT ![id] = 1 - @]

----------------------------------------------------------------------------
\* The clock

\* the clock moves by the liveness window, or by one ms more
TickSteps == {LOGOFF_CHECK_INTERVAL, LOGOFF_CHECK_INTERVAL + 1}

Tick ==
    /\ now < MaxTicks * LOGOFF_CHECK_INTERVAL
    /\ \E d \in TickSteps : now' = now + d
    /\ UNCHANGED <<agents, numAgents, sourceBuffers, masterMix, sendTime, pc,
                   received, parity, added, previousOutput, longSamples, sent,
                   sends, reported, outOfBounds, ingest, loop, sched, assetVars, landingVars>>

----------------------------------------------------------------------------

\* the zero-initialised global agents[] entry
NoAgent == [id |-> 0, active |-> FALSE, time |-> 0, bufferTransmitted |-> FALSE]

\* sendBuffer before line 79 and no call of addAgent in progress.
\* stopRequested records whether the mixer has been asked to stop: it is
\* what the surroundings of the thread want, no variable of main.cpp.
IdleIngest == [pc |-> "idle", i |-> 0, id |-> 0, frame |-> NoFrame]
NewSched == [pc |-> "l79", clock |-> 0, startTime |-> 0, currentFrame |-> 1,
             work |-> 0, deadline |-> 0, slept |-> 0, notSleeping |-> FALSE,
             cycles |-> 0, stopRequested |-> FALSE]

----------------------------------------------------------------------------
\* AssetClient (src/libraries/networking/src/AssetClient.cpp).  The nodes of
\* the NodeList are numbered; the last one is of another type than
\* AssetServer.  A message ID is an unsigned integer that ++_currentID wraps
\* at its width; the model gives it MessageIdValues values.
NumNodes == 2
NumPaths == 1
NumHashes == 1
MaxRequests == 1
MessageIdValues == 4

Nodes == 1..NumNodes
AssetServers == {n \in Nodes : n < NumNodes}
Paths == 1..NumPaths
Hashes == 1..NumHashes
NoHash == 0
MessageIds == 0..(MessageIdValues - 1)
NoRequest == 0

\* a pending map without entries, and _mappingCache without entries
EmptyPending == [n \in Nodes |-> [m \in MessageIds |-> NoRequest]]
EmptyCache == [p \in Paths |-> NoHash]
NoEvent == [op |-> "call", found |-> FALSE]

\* AssetClient after its construction (line 32 and lines 178-193), with no
\* node connected yet
InitAsset ==
    /\ currentID = 0
    /\ pendingRequests = EmptyPending
    /\ pendingInfoRequests = EmptyPending
    /\ pendingUploads = EmptyPending
    /\ pendingMappingRequests = EmptyPending
    /\ mappingCache = EmptyCache
    /\ nodeList = {}
    /\ requests = <<>>
    /\ receiving = {}
    /\ crashed = FALSE
    /\ event = NoEvent

----------------------------------------------------------------------------
\* SafeLanding (src/interface/src/octree/SafeLanding.cpp).  A sequence number
\* is an OCTREE_PACKET_SEQUENCE, an unsigned integer with the values
\* 0 .. MAX_T_VALUE; the model takes a narrow one, and the sequence numbers
\* of a landing from the few around the wrap from MAX_T_VALUE to 0.
MAX_T_VALUE == 15
NumSequenceNumbers == 3
NumEntities == 1

SEQUENCE_MODULO == MAX_T_VALUE + 1
INVALID_SEQUENCE == -1
Entities == 1..NumEntities
NoEntity == 0
SequenceAt(k) == (MAX_T_VALUE - 1 + k) % SEQUENCE_MODULO
SequenceNumbers == {SequenceAt(k) : k \in 0..(NumSequenceNumbers - 1)}

\* no call of SafeLanding in progress
NoCalls == [add |-> NoEntity, note |-> INVALID_SEQUENCE, load |-> "idle",
            result |-> "none", crashed |-> FALSE]

\* SafeLanding before the first startEntitySequence
InitLanding ==
    /\ trackingEntities = FALSE
    /\ trackedEntities = {}
    /\ trackedEntitiesRenderStatus = {}
    /\ maxTrackedEntityCount = 0
    /\ entityTree = FALSE
    /\ sequenceNumbers = <<>>
    /\ initialStart = INVALID_SEQUENCE
    /\ initialEnd = INVALID_SEQUENCE
    /\ calls = NoCalls

Init ==
    /\ agents = [i \in AgentSlots |-> NoAgent]
    /\ numAgents = 0
    /\ sourceBuffers = [b \in Slots |-> NewRingBuffer]
    /\ masterMix = ZeroFrame
    /\ sendTime = 0
    /\ pc = "mix"
    /\ now = 0
    /\ received = 0
    /\ parity = [id \in Ids |-> 0]
    /\ added = [b \in Slots |-> NoFrame]
    /\ previousOutput = [a \in Slots |-> NULL]
    /\ longSamples = [a \in Slots |-> NoFrame]
    /\ sent = [a \in Slots |-> NoFrame]
    /\ sends = <<>>
    /\ reported = {}
    /\ outOfBounds = FALSE
    /\ ingest = IdleIngest
    /\ loop = 0
    /\ sched = NewSched
    /\ InitAsset
    /\ InitLanding

Next == Receive \/ MixPhase \/ SendPhase \/ Tick

Spec == Init /\ [][Next]_vars

\* One peer that sends long enough for both cursors of its ring buffer to go
\* round the buffer.
ReceiveRing ==
    /\ received < MaxRingFrames
    /\ AddAgent(1, PeerFrame(1, parity[1]))
    /\ parity' = [parity EXCEPT ![1] = 1 - @]

NextRing == ReceiveRing \/ MixPhase \/ SendPhase \/ Tick

SpecRing == Init /\ [][NextRing]_vars

\* A burst: one peer sends frame after frame, numbered so that each can be
\* told from the others, while a second peer sends its first two frames.
SeqFrame(n) == [i \in Lanes |-> 10 * n + i]

ReceiveBurst ==
    \E id \in {1, 2} :
        /\ received < MaxBurstFrames
        /\ id <= numAgents + 1
        /\ id = 2 => sourceBuffers[1].endOfLastWrite \in {NULL, BUFFER_LENGTH_SAMPLES}
        /\ AddAgent(id, SeqFrame(received + 1))
        /\ UNCHANGED parity

NextBurst == ReceiveBurst \/ MixPhase \/ SendPhase

SpecBurst == Init /\ [][NextBurst]_vars

\* The socket may take less than the whole frame (line 150 returns fewer
\* than BUFFER_LENGTH_BYTES bytes).
ReceiveSend ==
    \E id \in Ids :
        /\ received < MaxSendFrames
        /\ id <= numAgents + 1
        /\ AddAgent(id, PeerFrame(id, parity[id]))
        /\ parity' = [parity EXCEPT ![id] = 1 - @]

NextSend == ReceiveSend \/ MixPhase \/ SendPhase \/ SendPhaseShort \/ Tick

SpecSend == Init /\ [][NextSend]_vars

\* Identities arrive one after another, each with its first frame, until one
\* more than there are ring buffers has arrived; the first identity keeps
\* sending meanwhile.
ReceiveAdmit ==
    \E id \in {1, numAgents + 1} :
        /\ received < MaxAdmitFrames
        /\ id <= MAX_SOURCE_BUFFERS + 1
        /\ AddAgent(id, SoftFrame(id))
        /\ UNCHANGED parity

NextAdmit == ReceiveAdmit \/ MixPhase \/ SendPhase

SpecAdmit == Init /\ [][NextAdmit]_vars

----------------------------------------------------------------------------
\* The two threads statement by statement.  main() runs addAgent on the
\* thread that receives, sendBuffer runs on its own thread (line 280), and no
\* line of either takes a lock: a step is one statement (one test, one
\* assignment, or one loop over the samples of a frame) of one of the two.

\* the cycle's records of what was added and sent
ghosts == <<added, previousOutput, longSamples, sent, sends, reported>>

\* lines 90-91: the first buffer from b on that was ever written.  The test
\* of line 91 fails for the others, whatever the other thread does meanwhile.
NextBuffer(b) ==
    IF \E c \in b .. (MAX_SOURCE_BUFFERS - 1) : sourceBuffers[c].endOfLastWrite # NULL
    THEN CHOOSE c \in b .. (MAX_SOURCE_BUFFERS - 1) :
            /\ sourceBuffers[c].endOfLastWrite # NULL
            /\ \A d \in b .. (c - 1) : sourceBuffers[d].endOfLastWrite = NULL
    ELSE MAX_SOURCE_BUFFERS

\* line 90: on to buffer b, or to the loop over the agents after the last one
ToBuffer(b) ==
    LET n == NextBuffer(b)
    IN IF n >= MAX_SOURCE_BUFFERS
       THEN pc' = "send" /\ loop' = 0
       ELSE pc' = "l92" /\ loop' = n

\* lines 213-215 and 108-110: a cursor at or past the end goes to the start
Wrap(off) == IF off >= RING_BUFFER_SAMPLES THEN 0 ELSE off

\* memcpy in progress into the frame at sample offset off of buffer b
Writing(b, off) ==
    /\ ingest.pc = "memcpy"
    /\ ingest.i = b
    /\ sourceBuffers[b].endOfLastWrite = off

\* What a loop over the samples at offset off of buffer b can read: the frame
\* stored there, or, while memcpy is writing that frame, any mix of the old
\* samples and the new ones.
FramesRead(b, off) ==
    IF Writing(b, off)
    THEN {[s \in Lanes |-> IF s \in new
                            THEN ingest.frame[s]
                            ELSE FrameAt(sourceBuffers[b], off)[s]] : new \in SUBSET Lanes}
    ELSE {FrameAt(sourceBuffers[b], off)}

\* lines 82-88: zero the master mix, take sendTime, enter the loop of line 90
CycleStart ==
    /\ pc = "mix"
    /\ masterMix' = ZeroFrame
    /\ sendTime' = now
    /\ ToBuffer(0)
    /\ added' = [b \in Slots |-> NoFrame]
    /\ previousOutput' = [a \in Slots |-> NULL]
    /\ longSamples' = [a \in Slots |-> NoFrame]
    /\ sent' = [a \in Slots |-> NoFrame]
    /\ sends' = <<>>
    /\ reported' = {}
    /\ UNCHANGED <<agents, numAgents, sourceBuffers, now, received, parity,
                   outOfBounds, ingest, sched, assetVars, landingVars>>

\* lines 92-94: the test that holds the buffer back
TestHeldBack ==
    /\ pc = "l92"
    /\ IF HeldBack(sourceBuffers[loop])
       THEN ToBuffer(loop + 1)
       ELSE pc' = "l95" /\ loop' = loop
    /\ UNCHANGED <<agents, numAgents, sourceBuffers, masterMix, sendTime, now,
                   received, parity, outOfBounds, ingest, sched, assetVars, landingVars, ghosts>>

\* TestStarved that waits at line 95 until the buffer holds a frame
TestStarved_Waits ==
    /\ pc = "l95"
    /\ pc' = IF Starved(sourceBuffers[loop]) THEN "l95" ELSE "l99"
    /\ UNCHANGED <<agents, numAgents, sourceBuffers, masterMix, sendTime, now,
                   received, parity, outOfBounds, ingest, loop, sched, assetVars, landingVars, ghosts>>

\* lines 95-96: the test for starvation
TestStarved ==
    /\ pc = "l95"
    /\ pc' = IF Starved(sourceBuffers[loop]) THEN "l97" ELSE "l99"
    /\ UNCHANGED <<agents, numAgents, sourceBuffers, masterMix, sendTime, now,
                   received, parity, outOfBounds, ingest, loop, sched, assetVars, landingVars, ghosts>>

\* line 97
StopBuffer ==
    /\ pc = "l97"
    /\ sourceBuffers' = [sourceBuffers EXCEPT ![loop].started = FALSE]
    /\ ToBuffer(loop + 1)
    /\ UNCHANGED <<agents, numAgents, masterMix, sendTime, now, received, parity,
                   outOfBounds, ingest, sched, assetVars, landingVars, ghosts>>

\* line 99
StartBuffer ==
    /\ pc = "l99"
    /\ sourceBuffers' = [sourceBuffers EXCEPT ![loop].started = TRUE]
    /\ pc' = "l100"
    /\ UNCHANGED <<agents, numAgents, masterMix, sendTime, now, received, parity,
                   outOfBounds, ingest, loop, sched, assetVars, landingVars, ghosts>>

\* line 100
MarkTransmitted ==
    /\ pc = "l100"
    /\ agents' = [agents EXCEPT ![loop].bufferTransmitted = TRUE]
    /\ pc' = "l102"
    /\ UNCHANGED <<numAgents, sourceBuffers, masterMix, sendTime, now, received,
                   parity, outOfBounds, ingest, loop, sched, assetVars, landingVars, ghosts>>

\* lines 102-104: the loop that adds the frame at nextOutput to the master mix
ReadFrame ==
    /\ pc = "l102"
    /\ \E frame \in FramesRead(loop, sourceBuffers[loop].nextOutput) :
          /\ masterMix' = AddToMix(masterMix, frame)
          /\ added' = [added EXCEPT ![loop] = frame]
    /\ pc' = "l106"
    /\ UNCHANGED <<agents, numAgents, sourceBuffers, sendTime, now, received, parity,
                   outOfBounds, ingest, loop, sched, assetVars, landingVars, previousOutput, longSamples,
                   sent, sends, reported>>

\* line 106
AdvanceRead ==
    /\ pc = "l106"
    /\ sourceBuffers' =
          [sourceBuffers EXCEPT ![loop].nextOutput = @ + BUFFER_LENGTH_SAMPLES]
    /\ pc' = "l108"
    /\ UNCHANGED <<agents, numAgents, masterMix, sendTime, now, received, parity,
                   outOfBounds, ingest, loop, sched, assetVars, landingVars, ghosts>>

\* lines 108-110
WrapRead ==
    /\ pc = "l108"
    /\ sourceBuffers' = [sourceBuffers EXCEPT ![loop].nextOutput = Wrap(@)]
    /\ ToBuffer(loop + 1)
    /\ UNCHANGED <<agents, numAgents, masterMix, sendTime, now, received, parity,
                   outOfBounds, ingest, sched, assetVars, landingVars, ghosts>>

\* lines 115-116: the end of the loop over the agents (and of the cycle), or
\* the test of the liveness window for agent loop
TestLive ==
    /\ pc = "send"
    /\ IF loop >= numAgents
       THEN pc' = "mix" /\ loop' = 0
       ELSE IF Live(agents[loop], sendTime)
            THEN pc' = "l118" /\ loop' = loop
            ELSE pc' = "send" /\ loop' = loop + 1
    /\ UNCHANGED <<agents, numAgents, sourceBuffers, masterMix, sendTime, now,
                   received, parity, outOfBounds, ingest, sched, assetVars, landingVars, ghosts>>

\* lines 118-124
TakePrevious ==
    /\ pc = "l118"
    /\ previousOutput' =
          [previousOutput EXCEPT
              ![loop] = IF agents[loop].bufferTransmitted
                        THEN PreviousOutputOf(sourceBuffers[loop])
                        ELSE NULL]
    /\ agents' = [agents EXCEPT ![loop].bufferTransmitted = FALSE]
    /\ pc' = "l126"
    /\ UNCHANGED <<numAgents, sourceBuffers, masterMix, sendTime, now, received,
                   parity, outOfBounds, ingest, loop, sched, assetVars, landingVars, added, longSamples,
                   sent, sends, reported>>

\* lines 126-155: the loop that composes the output of agent loop, and its send
ComposeAndSend ==
    /\ pc = "l126"
    /\ LET prev == previousOutput[loop]
       IN \E own \in (IF prev = NULL THEN {ZeroFrame} ELSE FramesRead(loop, prev)) :
            LET rb == [buffer |-> [k \in FrameIndex |-> own]]
                long == [s \in Lanes |-> LongSample(masterMix, rb, prev, s)]
            IN /\ longSamples' = [longSamples EXCEPT ![loop] = long]
               /\ sent' = [sent EXCEPT ![loop] = [s \in Lanes |-> ShortSample(long[s])]]
    /\ sends' = Append(sends, loop)
    /\ pc' = "send"
    /\ loop' = loop + 1
    /\ UNCHANGED <<agents, numAgents, sourceBuffers, masterMix, sendTime, now,
                   received, parity, outOfBounds, ingest, sched, assetVars, landingVars, added,
                   previousOutput, reported>>

\* lines 174-184: the call and the search for the identity
IngestSearch(id, frame) ==
    /\ ingest.pc = "idle"
    /\ ingest' = [pc |-> "l186", i |-> FindAgent(id), id |-> id, frame |-> frame]
    /\ UNCHANGED <<agents, numAgents, sourceBuffers, masterMix, sendTime, pc, now,
                   outOfBounds, loop, sched, assetVars, landingVars, ghosts>>

\* main(), lines 285-288: one more packet received and handed to addAgent
IngestCall(id, frame) ==
    /\ IngestSearch(id, frame)
    /\ received' = received + 1

\* lines 186-198
IngestAdmit ==
    /\ ingest.pc = "l186"
    /\ agents' = [agents EXCEPT ![ingest.i] = AdmitAgent(@, ingest.i, ingest.id)]
    /\ ingest' = [ingest EXCEPT !.pc = "l200"]
    /\ UNCHANGED <<numAgents, sourceBuffers, masterMix, sendTime, pc, now, received,
                   parity, outOfBounds, loop, sched, assetVars, landingVars, ghosts>>

\* lines 200-207
IngestPrepare ==
    /\ ingest.pc = "l200"
    /\ sourceBuffers' = [sourceBuffers EXCEPT ![ingest.i] = PrepareWrite(@)]
    /\ ingest' = [ingest EXCEPT !.pc = "l209"]
    /\ UNCHANGED <<agents, numAgents, masterMix, sendTime, pc, now, received,
                   parity, outOfBounds, loop, sched, assetVars, landingVars, ghosts>>

\* line 209: memcpy starts to write the frame at endOfLastWrite
IngestCopyBegin ==
    /\ ingest.pc = "l209"
    /\ ingest' = [ingest EXCEPT !.pc = "memcpy"]
    /\ UNCHANGED <<agents, numAgents, sourceBuffers, masterMix, sendTime, pc, now,
                   received, parity, outOfBounds, loop, sched, assetVars, landingVars, ghosts>>

\* line 209: memcpy has written the frame
IngestCopyEnd ==
    /\ ingest.pc = "memcpy"
    /\ sourceBuffers' =
          [sourceBuffers EXCEPT
              ![ingest.i].buffer[sourceBuffers[ingest.i].endOfLastWrite
                                    \div BUFFER_LENGTH_SAMPLES] = ingest.frame]
    /\ ingest' = [ingest EXCEPT !.pc = "l211"]
    /\ UNCHANGED <<agents, numAgents, masterMix, sendTime, pc, now, received,
                   parity, outOfBounds, loop, sched, assetVars, landingVars, ghosts>>

\* line 211
IngestAdvance ==
    /\ ingest.pc = "l211"
    /\ sourceBuffers' =
          [sourceBuffers EXCEPT ![ingest.i].endOfLastWrite = @ + BUFFER_LENGTH_SAMPLES]
    /\ ingest' = [ingest EXCEPT !.pc = "l213"]
    /\ UNCHANGED <<agents, numAgents, masterMix, sendTime, pc, now, received,
                   parity, outOfBounds, loop, sched, assetVars, landingVars, ghosts>>

\* lines 213-215
IngestWrap ==
    /\ ingest.pc = "l213"
    /\ sourceBuffers' = [sourceBuffers EXCEPT ![ingest.i].endOfLastWrite = Wrap(@)]
    /\ ingest' = [ingest EXCEPT !.pc = "l217"]
    /\ UNCHANGED <<agents, numAgents, masterMix, sendTime, pc, now, received,
                   parity, outOfBounds, loop, sched, assetVars, landingVars, ghosts>>

\* lines 217-221
IngestCount ==
    /\ ingest.pc = "l217"
    /\ numAgents' = IF ingest.i = numAgents THEN numAgents + 1 ELSE numAgents
    /\ ingest' = IdleIngest
    /\ UNCHANGED <<agents, sourceBuffers, masterMix, sendTime, pc, now, received,
                   parity, outOfBounds, loop, sched, assetVars, landingVars, ghosts>>

\* main(), lines 282-291: one peer sends frame after frame
ReceiveConc ==
    /\ received < MaxConcFrames
    /\ IngestCall(1, PeerFrame(1, parity[1]))
    /\ parity' = [parity EXCEPT ![1] = 1 - @]

\* a step of the thread that runs sendBuffer
MixerStep ==
    \/ CycleStart \/ TestHeldBack \/ TestStarved \/ StopBuffer \/ StartBuffer
    \/ MarkTransmitted \/ ReadFrame \/ AdvanceRead \/ WrapRead
    \/ TestLive \/ TakePrevious \/ ComposeAndSend

\* a step of the thread that runs main() and addAgent
IngestStep ==
    \/ ReceiveConc \/ IngestAdmit \/ IngestPrepare \/ IngestCopyBegin
    \/ IngestCopyEnd \/ IngestAdvance \/ IngestWrap \/ IngestCount

NextConc == MixerStep \/ IngestStep

SpecConc == Init /\ [][NextConc]_vars

\* One peer that never stops sending, with the packets counted up to
\* MaxLiveFrames only, and a mixer that never stops cycling.  The loop of
\* main() always has a next packet to hand to addAgent and no statement of
\* addAgent blocks: the thread keeps taking its next step.  The loop of
\* sendBuffer (line 81) has no exit and its sleep ends: each phase of its
\* cycle, taken here in one step, is followed by the next.
ReceiveLive ==
    /\ IngestSearch(1, PeerFrame(1, parity[1]))
    /\ received' = IF received < MaxLiveFrames THEN received + 1 ELSE received
    /\ parity' = [parity EXCEPT ![1] = 1 - @]

IngestStepLive ==
    \/ ReceiveLive \/ IngestAdmit \/ IngestPrepare \/ IngestCopyBegin
    \/ IngestCopyEnd \/ IngestAdvance \/ IngestWrap \/ IngestCount

\* the thread of sendBuffer ends a phase of its cycle and begins the next
PhaseEnds == pc' = IF pc = "mix" THEN "send" ELSE "mix"

NextLive == MixPhase \/ SendPhase \/ IngestStepLive

SpecLive ==
    /\ Init
    /\ [][NextLive]_vars
    /\ WF_pc(PhaseEnds)
    /\ WF_vars(IngestStepLive)

----------------------------------------------------------------------------
\* The timing of sendBuffer (lines 79 and 158-168).  Times are in usecs, as
\* usecTimestamp returns them; the work of a cycle (lines 82-156) is taken
\* by the time it lasts, and usleep by the time it is asked to sleep.

\* what sendBuffer does not touch of the mixer's state
mixerVars == <<agents, numAgents, sourceBuffers, masterMix, sendTime, pc, now,
               received, parity, outOfBounds, ingest, loop, ghosts,
               assetVars, landingVars>>

\* the time a cycle's work can take: a quarter or a half of the interval,
\* a quarter more than the interval, three intervals
WorkUsecs ==
    {BUFFER_SEND_INTERVAL_USECS \div 4, BUFFER_SEND_INTERVAL_USECS \div 2,
     BUFFER_SEND_INTERVAL_USECS + BUFFER_SEND_INTERVAL_USECS \div 4,
     3 * BUFFER_SEND_INTERVAL_USECS}

\* Deadline taken from the start of the cycle that has just ended
Deadline_FromCycleStart(s) == s.clock - s.work + BUFFER_SEND_INTERVAL_USECS

\* line 160: usecTimestamp(&startTime, currentFrame * BUFFER_SEND_INTERVAL_USECS)
Deadline(s) == s.startTime + s.currentFrame * BUFFER_SEND_INTERVAL_USECS

\* line 79: gettimeofday(&startTime), some time after the process started
SchedStart ==
    /\ sched.pc = "l79"
    /\ \E d \in WorkUsecs :
          sched' = [sched EXCEPT !.pc = "l82", !.clock = @ + d, !.startTime = sched.clock + d]
    /\ UNCHANGED mixerVars

\* lines 82-156: the mix and the send phase of a cycle take d usecs
SchedWork ==
    /\ sched.pc = "l82"
    /\ sched.currentFrame <= MaxCycles
    /\ \E d \in WorkUsecs :
          sched' = [sched EXCEPT !.pc = "l158", !.clock = @ + d, !.work = d]
    /\ UNCHANGED mixerVars

\* lines 158-168: sleep until the deadline, or report that there is no time
\* left to sleep; then count the frame and, the condition of line 81 being
\* the constant true, go into the body of the loop again whether or not a
\* stop has been asked for by then
SchedSleep ==
    /\ sched.pc = "l158"
    /\ \E stop \in BOOLEAN :
        LET usecToSleep == Deadline(sched) - sched.clock
        IN sched' = [sched EXCEPT
                        !.pc = "l82",
                        !.deadline = Deadline(sched),
                        !.slept = IF usecToSleep > 0 THEN usecToSleep ELSE 0,
                        !.notSleeping = ~(usecToSleep > 0),
                        !.clock = IF usecToSleep > 0 THEN @ + usecToSleep ELSE @,
                        !.currentFrame = @ + 1,
                        !.cycles = @ + 1,
                        !.stopRequested = @ \/ stop]
    /\ UNCHANGED mixerVars

NextSched == SchedStart \/ SchedWork \/ SchedSleep

SpecSched == Init /\ [][NextSched]_vars

----------------------------------------------------------------------------
\* What the claims speak of

\* the buffers whose frame was added to the master mix in this cycle
Contributors == {b \in Slots : added[b] # NoFrame}

\* a step of the mixer thread through the mix phase of one cycle
MixStep == pc = "mix" /\ pc' = "send"

\* x clamped into the int16_t range
Saturate(x) == IF x > 32767 THEN 32767 ELSE IF x < 0 - 32768 THEN 0 - 32768 ELSE x

\* the frame m - f, sample by sample and exact
Minus(m, f) == [s \in Lanes |-> m[s] - f[s]]

\* the frame m clamped sample by sample
SaturateFrame(m) == [s \in Lanes |-> Saturate(m[s])]

Backlog(b) == diffLastWriteNextOutput(sourceBuffers[b])

StartThreshold == BUFFER_LENGTH_SAMPLES + JITTER_BUFFER_SAMPLES

----------------------------------------------------------------------------
\* C1: in a cycle in which exactly one ring buffer contributes to the master
\* mix, the master mix is that peer's frame, and the output sent to that
\* peer (it is sent one when it is within the liveness window) is all zeros.
C1_SoleContributorHearsSilence ==
    LET c == Contributors
    IN \A a \in c :
        c = {a} =>
            /\ masterMix = added[a]
            /\ sent[a] # NoFrame => sent[a] = ZeroFrame

\* C2: in a cycle in which exactly two peers A and B contribute a frame each
\* and both are sent an output, the output sent to A is B's frame and the
\* output sent to B is A's frame.
C2_TwoPeersHearEachOther ==
    LET c == Contributors
    IN \A a, b \in c :
        (a # b /\ c = {a, b} /\ sent[a] # NoFrame /\ sent[b] # NoFrame) =>
            /\ sent[a] = added[b]
            /\ sent[b] = added[a]

\* C3: every output sent is the clamped master mix minus the peer's own
\* frame if and only if that frame was added to the master mix in the same
\* cycle, and the clamped master mix alone otherwise.
C3_SubtractsIffContributed ==
    \A a \in Slots :
        sent[a] # NoFrame =>
            /\ (previousOutput[a] # NULL) <=> (added[a] # NoFrame)
            /\ sent[a] = IF added[a] # NoFrame
                         THEN SaturateFrame(Minus(masterMix, added[a]))
                         ELSE SaturateFrame(masterMix)

\* C4: every sample the send phase sends is the exact value composed for it
\* (the master mix, or the master mix minus the sample at previousOutput)
\* clamped into the int16_t range: 32767 above it, -32768 below it, unchanged
\* inside it.
C4_OutputSaturates ==
    [][(pc = "send" /\ pc' = "mix") =>
          \A a \in Slots :
              sent'[a] # NoFrame =>
                /\ longSamples'[a] =
                      IF previousOutput'[a] = NULL
                      THEN masterMix
                      ELSE Minus(masterMix, FrameAt(sourceBuffers[a], previousOutput'[a]))
                /\ \A s \in Lanes :
                      LET long == longSamples'[a][s]
                          short == sent'[a][s]
                      IN /\ long > MAX_SAMPLE_VALUE => short = MAX_SAMPLE_VALUE
                         /\ long < MIN_SAMPLE_VALUE => short = MIN_SAMPLE_VALUE
                         /\ (long >= MIN_SAMPLE_VALUE /\ long <= MAX_SAMPLE_VALUE) =>
                                short = long]_vars

\* an output with a sample clamped at the top, one clamped at the bottom, and
\* another output with a sample passed unchanged
C4_Witness ==
    /\ \E a \in Slots, s, t \in Lanes :
          /\ sent[a] # NoFrame
          /\ longSamples[a][s] > MAX_SAMPLE_VALUE /\ sent[a][s] = MAX_SAMPLE_VALUE
          /\ longSamples[a][t] < MIN_SAMPLE_VALUE /\ sent[a][t] = MIN_SAMPLE_VALUE
          /\ Cardinality(Contributors) >= 2
    /\ \E a \in Slots, s \in Lanes :
          /\ sent[a] # NoFrame
          /\ longSamples[a][s] # 0
          /\ sent[a][s] = longSamples[a][s]

\* C5: a ring buffer that is not started and whose backlog is below
\* F + jitterThreshold is not started by the mix phase and adds nothing to
\* the master mix.
C5_NoStartBelowThreshold ==
    [][MixStep =>
        \A b \in Slots :
            (~sourceBuffers[b].started /\ Backlog(b) < StartThreshold) =>
                /\ ~sourceBuffers'[b].started
                /\ added'[b] = NoFrame]_vars

\* a buffer that has played, starved and holds one frame again is held back
C5_Witness ==
    \E b \in Slots :
        /\ pc = "send"
        /\ sourceBuffers[b].nextOutput # 0
        /\ ~sourceBuffers[b].started
        /\ Backlog(b) = BUFFER_LENGTH_SAMPLES
        /\ added[b] = NoFrame

\* C6: a ring buffer that is not started and whose backlog is at least
\* F + jitterThreshold is started by the mix phase and contributes the frame
\* at its read cursor.
C6_StartAtThreshold ==
    [][MixStep =>
        \A b \in Slots :
            (/\ sourceBuffers[b].endOfLastWrite # NULL
             /\ ~sourceBuffers[b].started
             /\ Backlog(b) >= StartThreshold) =>
                /\ sourceBuffers'[b].started
                /\ added'[b] = FrameAt(sourceBuffers[b], sourceBuffers[b].nextOutput)
                /\ added'[b] # NoFrame]_vars

C6_Witness ==
    \E b \in Slots :
        /\ pc = "send"
        /\ sourceBuffers[b].started
        /\ sourceBuffers[b].nextOutput = BUFFER_LENGTH_SAMPLES
        /\ added[b] = sourceBuffers[b].buffer[0]

\* C7: a started ring buffer whose backlog is below F at the mix phase
\* becomes not started, adds nothing to the master mix, and has its two
\* cursors at the same position afterwards.
C7_StarvationStops ==
    [][MixStep =>
        \A b \in Slots :
            (sourceBuffers[b].started /\ Backlog(b) < BUFFER_LENGTH_SAMPLES) =>
                /\ ~sourceBuffers'[b].started
                /\ added'[b] = NoFrame
                /\ sourceBuffers'[b].endOfLastWrite = sourceBuffers'[b].nextOutput
                /\ diffLastWriteNextOutput(sourceBuffers'[b]) = 0]_vars

\* a buffer that has played and was stopped by the mix phase
C7_Witness ==
    \E b \in Slots :
        /\ pc = "send"
        /\ sourceBuffers[b].nextOutput # 0
        /\ ~sourceBuffers[b].started
        /\ sourceBuffers[b].endOfLastWrite = sourceBuffers[b].nextOutput
        /\ added[b] = NoFrame

\* C8: the mix phase leaves a buffer that is held back (not started, backlog
\* not above the start threshold) as it is, cursors and samples, and the
\* buffer adds nothing to the master mix.
C8_HeldBackUntouched ==
    [][MixStep =>
        \A b \in Slots :
            (~sourceBuffers[b].started /\ Backlog(b) <= StartThreshold) =>
                /\ sourceBuffers'[b] = sourceBuffers[b]
                /\ added'[b] = NoFrame]_vars

\* a new peer with one frame buffered, after a mix phase
C8_Witness ==
    \E b \in Slots :
        /\ pc = "send"
        /\ sourceBuffers[b].endOfLastWrite = BUFFER_LENGTH_SAMPLES
        /\ sourceBuffers[b].nextOutput = 0
        /\ sourceBuffers[b].buffer[0] # UNINIT
        /\ ~sourceBuffers[b].started
        /\ added[b] = NoFrame

\* C9: from every reachable state of a ring buffer, the write step of
\* addAgent followed by the mixer's advance of nextOutput leaves the backlog
\* as it was before the write.
C9_WriteReadKeepsBacklog ==
    \A b \in Slots :
        sourceBuffers[b].endOfLastWrite # NULL =>
            LET written == WriteFrame(sourceBuffers[b], ZeroFrame)
                read == [written EXCEPT !.nextOutput = AdvanceNextOutput(@)]
            IN diffLastWriteNextOutput(read) = Backlog(b)

\* a buffer whose write cursor is on the last frame, so that the write wraps
\* it, and one whose read cursor is on the last frame
C9_Witness ==
    \E b \in Slots :
        /\ sourceBuffers[b].endOfLastWrite = RING_BUFFER_SAMPLES - BUFFER_LENGTH_SAMPLES
        /\ sourceBuffers[b].nextOutput # 0
        /\ Backlog(b) > 0

\* C10: the read cursor of every ring buffer, and its write cursor once a
\* frame was written, is an offset in [0, C) and a multiple of F.
C10_CursorsInRange ==
    \A b \in Slots :
        LET rb == sourceBuffers[b]
        IN /\ rb.nextOutput >= 0 /\ rb.nextOutput < RING_BUFFER_SAMPLES
           /\ rb.nextOutput % BUFFER_LENGTH_SAMPLES = 0
           /\ rb.endOfLastWrite # NULL =>
                /\ rb.endOfLastWrite >= 0 /\ rb.endOfLastWrite < RING_BUFFER_SAMPLES
                /\ rb.endOfLastWrite % BUFFER_LENGTH_SAMPLES = 0

\* both cursors have gone round: the tenth frame was written and then read
C10_Witness ==
    \E b \in Slots :
        /\ sourceBuffers[b].endOfLastWrite = 0
        /\ sourceBuffers[b].nextOutput = 0
        /\ sourceBuffers[b].buffer[RING_BUFFER_FRAMES - 1] # UNINIT
        /\ added[b] = sourceBuffers[b].buffer[RING_BUFFER_FRAMES - 1]

\* the step is the mixer's test of line 92-93 (with the backlog computed,
\* the buffer not being started) or of line 95 on buffer loop
MixerTakesBacklog ==
    \/ pc = "l92" /\ ~sourceBuffers[loop].started /\ <<pc, loop>>' # <<pc, loop>>
    \/ pc = "l95" /\ pc' # "l95"

\* the step is addAgent's test of line 202 on the buffer of its agent
IngestTakesBacklog ==
    /\ ingest.pc = "l200"
    /\ ingest'.pc = "l209"
    /\ sourceBuffers[ingest.i].endOfLastWrite # NULL

\* both cursors of rb are offsets into the buffer and the backlog computed
\* from them is in [0, C)
BacklogInRange(rb) ==
    /\ rb.endOfLastWrite >= 0 /\ rb.endOfLastWrite < RING_BUFFER_SAMPLES
    /\ rb.nextOutput >= 0 /\ rb.nextOutput < RING_BUFFER_SAMPLES
    /\ diffLastWriteNextOutput(rb) >= 0
    /\ diffLastWriteNextOutput(rb) < RING_BUFFER_SAMPLES

\* C11: with the two threads interleaved statement by statement, whenever
\* the mixer (lines 93, 95) or addAgent (line 202) computes the backlog of a
\* buffer, both cursors it reads are offsets in [0, C), neither in the
\* advanced-but-not-yet-wrapped position C, and the value is in [0, C).
C11_BacklogAlwaysInRange ==
    [][/\ MixerTakesBacklog => BacklogInRange(sourceBuffers[loop])
       /\ IngestTakesBacklog => BacklogInRange(sourceBuffers[ingest.i])]_vars

\* A frame has arrived and no ring buffer holds it.  The frame of an identity
\* that is in the table is written into its buffer (the write cursor moves),
\* so the frame came from an identity that is not.
UnseenArrival == received' = received + 1 /\ sourceBuffers' = sourceBuffers

\* C13: when a frame arrives from an unseen identity while the table holds
\* as many peers as there are ring buffers, addAgent rejects it: no entry of
\* agents[] is written, numAgents and the ring buffers are as before, and the
\* program has not left its defined behaviour (the mixer keeps running).
C13_RejectsAtCapacity ==
    [][(numAgents = MAX_SOURCE_BUFFERS /\ UnseenArrival) =>
          /\ agents' = agents
          /\ numAgents' = numAgents
          /\ ~outOfBounds']_vars

\* C14: numAgents never exceeds the number of ring buffers nor MAX_AGENTS,
\* and no index used into sourceBuffers[] is past its end.
C14_IndicesAllocated ==
    /\ numAgents <= MAX_SOURCE_BUFFERS
    /\ numAgents <= MAX_AGENTS
    /\ ~outOfBounds

\* a step of the mixer thread through the send phase of one cycle
SendStep == pc = "send" /\ pc' = "mix"

\* how many times agent a was handed to the socket in the cycle
TimesSent(log, a) == Cardinality({k \in DOMAIN log : log[k] = a})

\* C15: in the send phase of a cycle every registered peer is handed to the
\* socket exactly once if sendTime - lastSeen <= LOGOFF_CHECK_INTERVAL and
\* not at all otherwise; nothing else is handed to the socket.
C15_SentOnceIffLive ==
    [][SendStep =>
          /\ \A a \in 0 .. (numAgents - 1) :
                /\ TimesSent(sends', a) =
                      IF sendTime - agents[a].time <= LOGOFF_CHECK_INTERVAL THEN 1 ELSE 0
                /\ (sent'[a] # NoFrame) <=> (TimesSent(sends', a) = 1)
          /\ \A k \in DOMAIN sends' : sends'[k] \in 0 .. (numAgents - 1)]_vars

\* a cycle has sent once to a peer seen within the window and not at all to
\* a peer last seen 1001 ms before the send time
C15_Witness ==
    /\ pc = "mix"
    /\ \E a, b \in 0 .. (numAgents - 1) :
          /\ sendTime - agents[a].time <= LOGOFF_CHECK_INTERVAL
          /\ TimesSent(sends, a) = 1
          /\ sent[a] # NoFrame
          /\ sendTime - agents[b].time = LOGOFF_CHECK_INTERVAL + 1
          /\ TimesSent(sends, b) = 0
          /\ sent[b] = NoFrame

\* C16: a peer last seen more than LOGOFF_CHECK_INTERVAL before the cycle's
\* send time is skipped by the mix phase: its buffer adds nothing to the
\* master mix, its read cursor stays, its samples stay.
C16_StalePeerNotMixed ==
    [][MixStep =>
          \A b \in 0 .. (numAgents - 1) :
              sendTime' - agents[b].time > LOGOFF_CHECK_INTERVAL =>
                  /\ added'[b] = NoFrame
                  /\ sourceBuffers'[b].nextOutput = sourceBuffers[b].nextOutput
                  /\ sourceBuffers'[b].buffer = sourceBuffers[b].buffer]_vars

\* the output the send phase composes for agent a from the state before it
ComposedFor(a) ==
    LET prev == IF agents[a].bufferTransmitted
                THEN PreviousOutputOf(sourceBuffers[a])
                ELSE NULL
    IN [s \in Lanes |-> ShortSample(LongSample(masterMix, sourceBuffers[a], prev, s))]

\* C17: in a send phase in which the send to peer a comes back short, the
\* failure of a is reported if a was sent to at all, every live peer (those
\* after a in the table too) is handed its own composed frame once, and the
\* loop is at the start of the next cycle afterwards.
C17_ShortWriteDoesNotAbort ==
    [][\A a \in 0 .. (numAgents - 1) :
          SendCycle({a}) =>
              /\ reported' = IF Live(agents[a], sendTime) THEN {a} ELSE {}
              /\ \A b \in 0 .. (numAgents - 1) :
                    Live(agents[b], sendTime) =>
                        /\ TimesSent(sends', b) = 1
                        /\ sent'[b] = ComposedFor(b)
              /\ pc' = "mix"]_vars

\* the send to the first of three live peers came back short and was
\* reported, and the two peers after it were sent their frames
C17_Witness ==
    /\ pc = "mix"
    /\ numAgents = 3
    /\ reported = {0}
    /\ sends = <<0, 1, 2>>
    /\ \A a \in {1, 2} : sent[a] # NoFrame /\ sent[a] # ZeroFrame

\* the step of lines 158-168 that ends a cycle
SchedStep == sched.pc = "l158" /\ sched'.pc = "l82"

\* C18: the deadline used at the end of the k-th cycle is
\* startTime + k * interval, whatever the earlier cycles took; a cycle that
\* ends before its deadline sleeps exactly the time left and wakes at the
\* deadline.
C18_DeadlineFromStartAndIndex ==
    [][SchedStep =>
          LET k == sched'.cycles
              deadline == sched.startTime + k * BUFFER_SEND_INTERVAL_USECS
          IN /\ sched'.deadline = deadline
             /\ sched'.startTime = sched.startTime
             /\ sched.clock < deadline =>
                    /\ sched'.slept = deadline - sched.clock
                    /\ sched'.clock = deadline
                    /\ ~sched'.notSleeping]_vars

\* the second cycle ended early and slept up to startTime + 2 * interval,
\* after a first cycle that overran
C18_Witness ==
    /\ sched.cycles = 2
    /\ sched.pc = "l82"
    /\ sched.startTime > 0
    /\ sched.slept > 0
    /\ sched.clock = sched.startTime + 2 * BUFFER_SEND_INTERVAL_USECS
    /\ sched.clock - sched.slept - sched.work
          > sched.startTime + BUFFER_SEND_INTERVAL_USECS

\* C19: a cycle that ends at or after its deadline reports it and does not
\* sleep, and the missed time is not caught up: every cycle whose work takes
\* less than one interval sleeps, whatever an earlier cycle took.
C19_NoCatchUp ==
    [][SchedStep =>
          /\ sched.clock >= Deadline(sched) =>
                sched'.notSleeping /\ sched'.slept = 0 /\ sched'.clock = sched.clock
          /\ sched.work < BUFFER_SEND_INTERVAL_USECS =>
                ~sched'.notSleeping /\ sched'.slept > 0]_vars

\* the mixer's loop over the samples at nextOutput of buffer loop, lines 102-104
MixerReads == pc = "l102" /\ pc' = "l106"

\* C12: when the mixer reads the frame at nextOutput of a buffer (lines
\* 102-104), the backlog of that buffer is at least F at that moment, also
\* when addAgent has run for the peer since the tests of lines 92-95.
C12_ReadsOnlyWithBacklog ==
    [][MixerReads =>
          diffLastWriteNextOutput(sourceBuffers[loop]) >= BUFFER_LENGTH_SAMPLES]_vars

\* the mixer is inside a loop over the samples of the frame at offset off of
\* buffer b: the loop of lines 102-104 that adds them to the master mix, or
\* the loop of lines 126-148 that subtracts them
Reading(b, off) ==
    /\ loop = b
    /\ \/ pc = "l102" /\ sourceBuffers[b].nextOutput = off
       \/ pc = "l126" /\ previousOutput[b] = off

\* C20: while the mixer is in a loop over the samples of a frame of a
\* buffer, memcpy (line 209) is not writing into the same frame of that
\* buffer.
C20_NoReadWhileWriting ==
    \A b \in Slots : \A k \in FrameIndex :
        ~(/\ Reading(b, k * BUFFER_LENGTH_SAMPLES)
          /\ Writing(b, k * BUFFER_LENGTH_SAMPLES))

\* a statement of addAgent is executed
IngestActs == ingest' # ingest

\* a statement of the loop of sendBuffer is executed
MixerActs == <<pc, loop>>' # <<pc, loop>>

\* C21: with the two threads interleaved statement by statement, no
\* statement of addAgent changes the read cursor or the started flag of any
\* buffer (the reset of lines 203-206 is never taken), and no statement of
\* the mixer changes a write cursor.
C21_CursorsHaveOneWriter ==
    [][/\ IngestActs =>
            \A b \in Slots :
                /\ sourceBuffers'[b].nextOutput = sourceBuffers[b].nextOutput
                /\ sourceBuffers'[b].started = sourceBuffers[b].started
       /\ MixerActs =>
            \A b \in Slots :
                sourceBuffers'[b].endOfLastWrite = sourceBuffers[b].endOfLastWrite]_vars

\* addAgent has passed the test of line 202 on a started buffer holding
\* C - F samples, the largest backlog, and has left it started
C21_Witness ==
    /\ ingest.pc = "l209"
    /\ sourceBuffers[ingest.i].started
    /\ sourceBuffers[ingest.i].nextOutput # 0
    /\ diffLastWriteNextOutput(sourceBuffers[ingest.i]) =
            RING_BUFFER_SAMPLES - BUFFER_LENGTH_SAMPLES

\* buffer b has been written to and the mix phase passes over it: it is held
\* back (lines 92-94) or starved (lines 95-97)
PassedOver(b) ==
    /\ sourceBuffers[b].endOfLastWrite # NULL
    /\ HeldBack(sourceBuffers[b]) \/ Starved(sourceBuffers[b])

\* rb as a started buffer whose backlog is one frame of silence
WithSilence(rb) ==
    [rb EXCEPT
        !.started = TRUE,
        !.buffer[rb.nextOutput \div BUFFER_LENGTH_SAMPLES] = ZeroFrame,
        !.endOfLastWrite = AdvanceEndOfLastWrite(rb.nextOutput)]

\* the mix phase of this cycle had buffer b held a frame of silence
MixWithSilence(b) ==
    MixLoop([sourceBuffers |-> [sourceBuffers EXCEPT ![b] = WithSilence(@)],
             agents |-> agents,
             masterMix |-> ZeroFrame,
             added |-> [c \in Slots |-> NoFrame]], 0)

\* the send phase of this cycle had every send taken the whole frame
SendWithoutFailure ==
    SendLoop([agents |-> agents,
              previousOutput |-> previousOutput,
              longSamples |-> longSamples,
              sent |-> sent,
              sends |-> sends,
              reported |-> reported,
              shortWrites |-> {}], 0)

\* C22: a mix phase that passes over buffer b (held back or starved) leaves
\* the master mix and, for every other peer, the buffer (cursors, started
\* flag), the agent entry and the frame taken exactly as the same mix phase
\* leaves them when b contributes a frame of silence; a send phase in which
\* the send to a comes back short composes for every other peer the frame
\* it composes when no send fails, and touches no buffer.
C22_FailureOfOnePeerIsIsolated ==
    [][/\ MixStep =>
            \A b \in Slots :
                PassedOver(b) =>
                    LET alt == MixWithSilence(b)
                    IN /\ masterMix' = alt.masterMix
                       /\ \A c \in Slots \ {b} :
                            /\ sourceBuffers'[c] = alt.sourceBuffers[c]
                            /\ agents'[c] = alt.agents[c]
                            /\ added'[c] = alt.added[c]
       /\ \A a \in 0 .. (numAgents - 1) :
            SendCycle({a}) =>
                LET alt == SendWithoutFailure
                IN /\ sourceBuffers' = sourceBuffers
                   /\ \A c \in Slots \ {a} :
                        /\ sent'[c] = alt.sent[c]
                        /\ agents'[c] = alt.agents[c]]_vars

\* a cycle of three peers: the first contributed a frame, the second was
\* passed over in the mix phase and the send to it came back short, and the
\* third was sent the frame of the first
C22_Witness ==
    /\ pc = "mix"
    /\ numAgents = 3
    /\ added[0] # NoFrame /\ added[0] # ZeroFrame
    /\ sourceBuffers[1].endOfLastWrite # NULL
    /\ added[1] = NoFrame
    /\ reported = {1}
    /\ sent[2] = SaturateFrame(added[0])

\* the mix phase reads a frame of buffer b: b has been written to and is
\* neither held back nor starved
ReadInMix(b) ==
    /\ sourceBuffers[b].endOfLastWrite # NULL
    /\ ~HeldBack(sourceBuffers[b])
    /\ ~Starved(sourceBuffers[b])

\* the frame at the read cursor of b if the mix phase reads it, silence if not
FrameReadInMix(b) ==
    IF ReadInMix(b)
    THEN FrameAt(sourceBuffers[b], sourceBuffers[b].nextOutput)
    ELSE ZeroFrame

RECURSIVE SumOfFrames(_, _)
\* the exact sum, sample by sample, of frames[b], ..., frames[MAX_SOURCE_BUFFERS - 1]
SumOfFrames(frames, b) ==
    IF b >= MAX_SOURCE_BUFFERS
    THEN ZeroFrame
    ELSE LET rest == SumOfFrames(frames, b + 1)
         IN [s \in Lanes |-> frames[b][s] + rest[s]]

\* C23: at the end of a mix phase each sample of the master mix is the exact
\* integer sum of that sample over the frames read from the buffers in this
\* phase, whatever the master mix held before: nothing is carried over from
\* the cycle before, the sum is not narrowed to 16 bits, and it is all zeros
\* when no buffer is read.
C23_MasterMixIsExactSum ==
    [][MixStep =>
          /\ masterMix' = SumOfFrames([b \in Slots |-> FrameReadInMix(b)], 0)
          /\ (\A b \in Slots : ~ReadInMix(b)) => masterMix' = ZeroFrame]_vars

\* two buffers were read in a mix phase and a sample of the master mix is
\* their sum, above the largest 16-bit value
C23_Witness ==
    /\ pc = "send"
    /\ Cardinality(Contributors) = 2
    /\ \E s \in Lanes : masterMix[s] > MAX_SAMPLE_VALUE
    /\ masterMix = SumOfFrames([b \in Slots |-> IF added[b] = NoFrame
                                                THEN ZeroFrame ELSE added[b]], 0)

\* C24: in a mix phase, every buffer that is started and holds a backlog of
\* at least F has exactly one frame consumed: nextOutput advances by F
\* modulo C, endOfLastWrite is as before, the backlog is smaller by exactly
\* F, and the buffer is still started.
C24_ConsumesExactlyOneFrame ==
    [][MixStep =>
          \A b \in Slots :
              (sourceBuffers[b].started /\ Backlog(b) >= BUFFER_LENGTH_SAMPLES) =>
                  /\ sourceBuffers'[b].nextOutput =
                        (sourceBuffers[b].nextOutput + BUFFER_LENGTH_SAMPLES)
                            % RING_BUFFER_SAMPLES
                  /\ sourceBuffers'[b].endOfLastWrite = sourceBuffers[b].endOfLastWrite
                  /\ diffLastWriteNextOutput(sourceBuffers'[b]) =
                        Backlog(b) - BUFFER_LENGTH_SAMPLES
                  /\ sourceBuffers'[b].started
                  /\ sourceBuffers'[b].buffer = sourceBuffers[b].buffer]_vars

\* a started buffer has just had its last frame consumed, the read cursor
\* wrapping to the start, with the write cursor ahead of it after a wrap of
\* its own
C24_Witness ==
    \E b \in Slots :
        /\ pc = "send"
        /\ sourceBuffers[b].started
        /\ sourceBuffers[b].nextOutput = 0
        /\ added[b] = sourceBuffers[b].buffer[RING_BUFFER_FRAMES - 1]
        /\ sourceBuffers[b].endOfLastWrite = BUFFER_LENGTH_SAMPLES

\* C25: for every peer whose frame was added in the mix phase of a cycle, the
\* samples the send phase of that cycle subtracts (the frame at
\* previousOutput) are the samples that were added, also when addAgent has
\* stored further frames of the peer between the two phases.
C25_SubtractsWhatWasAdded ==
    [][SendStep =>
          \A a \in 0 .. (numAgents - 1) :
              (added[a] # NoFrame /\ previousOutput'[a] # NULL) =>
                  FrameAt(sourceBuffers[a], previousOutput'[a]) = added[a]]_vars

\* the step is a call of addAgent that stores a frame
AddAgentStep == received' = received + 1 /\ ~outOfBounds'

\* C27: after every call of addAgent the buffer it wrote to holds a backlog
\* of at least F: the write cursor does not come to rest on the read cursor,
\* where a full buffer would read as an empty one.
C27_WriteKeepsBacklog ==
    [][AddAgentStep =>
          \A b \in Slots :
              sourceBuffers'[b] # sourceBuffers[b] =>
                  diffLastWriteNextOutput(sourceBuffers'[b]) >= BUFFER_LENGTH_SAMPLES]_vars

\* C28: with one peer that sends for ever and a mixer that cycles for ever
\* (weak fairness on the receive step and on both phases of the cycle), the
\* peer's buffer is eventually started and a frame of it is added to the
\* master mix.
C28_SendingPeerEventuallyStarts ==
    <>(sourceBuffers[0].started /\ added[0] # NoFrame)

\* C29: no step lowers numAgents, and every entry of the table keeps its
\* identity at its index and stays active; a send phase passes over an
\* entry past the liveness window without sending to it and without
\* changing it.
C29_AgentsAreNeverRemoved ==
    [][/\ numAgents' >= numAgents
       /\ \A i \in 0 .. (numAgents - 1) :
            /\ agents'[i].id = agents[i].id
            /\ agents[i].active
            /\ agents'[i].active
       /\ SendStep =>
            \A i \in 0 .. (numAgents - 1) :
                sendTime - agents[i].time > LOGOFF_CHECK_INTERVAL =>
                    /\ sent'[i] = NoFrame
                    /\ agents'[i] = agents[i]]_vars

\* a send phase has passed over the first agent, which is past the liveness
\* window, and has sent to the second: both are still in the table, active,
\* at their indices
C29_Witness ==
    /\ pc = "mix"
    /\ numAgents = 2
    /\ sendTime - agents[0].time > LOGOFF_CHECK_INTERVAL
    /\ sent[0] = NoFrame
    /\ sent[1] # NoFrame
    /\ agents[0].id = 1 /\ agents[0].active
    /\ agents[1].id = 2 /\ agents[1].active

\* the step is a call of addAgent for an identity that has no entry
UnseenIdentityArrives ==
    /\ received' = received + 1
    /\ \E j \in AgentSlots :
        /\ agents'[j].id # agents[j].id
        /\ \A i \in 0 .. (numAgents - 1) : agents[i].id # agents'[j].id

\* entry i of the table is past the liveness window at time t
Retired(i, t) == t - agents[i].time > LOGOFF_CHECK_INTERVAL

\* C30: when a frame arrives from an identity that has no entry while some
\* entry of the table is retired (past the liveness window, or not active),
\* the new identity is given that entry's slot and the table does not grow.
C30_RetiredSlotIsReused ==
    [][(/\ UnseenIdentityArrives
        /\ \E i \in 0 .. (numAgents - 1) : Retired(i, now) \/ ~agents[i].active) =>
            /\ numAgents' = numAgents
            /\ \E i \in 0 .. (numAgents - 1) :
                /\ Retired(i, now) \/ ~agents[i].active
                /\ agents'[i].id # agents[i].id]_vars

\* the identities that have an entry in the table
KnownIds == {agents[i].id : i \in 0 .. (numAgents - 1)}

\* the step is a call of addAgent for a packet of identity id (the packets
\* of an identity alternate between its two frames)
AdmissionOf(id) ==
    /\ received' = received + 1
    /\ parity'[id] # parity[id]

\* C31: no two entries of agents[0 .. numAgents) hold the same identity, and
\* a call of addAgent adds exactly one entry when the identity of its packet
\* has none and adds none when it has one.
C31_OneEntryPerIdentity ==
    [][/\ \A i, j \in 0 .. (numAgents' - 1) :
            agents'[i].id = agents'[j].id => i = j
       /\ \A id \in Ids :
            AdmissionOf(id) =>
                /\ numAgents' = IF id \in KnownIds THEN numAgents ELSE numAgents + 1
                /\ KnownIds' = KnownIds \cup {id}]_vars

\* three identities have an entry each, after five packets: two of the
\* packets came from identities already in the table
C31_Witness ==
    /\ numAgents = 3
    /\ received = 5
    /\ Cardinality(KnownIds) = 3

\* how far into the body of the loop of line 90 (lines 92-110), or into the
\* body of the loop of line 115 (lines 116-155), the statement at p is
StageOf(p) ==
    CASE p = "l92" -> 1
      [] p = "l95" -> 2
      [] p = "l97" -> 3
      [] p = "l99" -> 3
      [] p = "l100" -> 4
      [] p = "l102" -> 5
      [] p = "l106" -> 6
      [] p = "l108" -> 7
      [] p = "send" -> 0
      [] p = "l118" -> 1
      [] p = "l126" -> 2
      [] OTHER -> 0

\* how far into its cycle the mixer is: 0 at the top of the cycle, then the
\* statements of the loop over the buffers in order, then those of the loop
\* over the agents
CyclePosition ==
    IF pc = "mix" THEN 0
    ELSE IF pc \in {"send", "l118", "l126"}
         THEN 1 + 8 * MAX_SOURCE_BUFFERS + 3 * loop + StageOf(pc)
         ELSE 1 + 8 * loop + StageOf(pc)

\* the position after the last agent, where the cycle ends
CycleLength == 1 + 8 * MAX_SOURCE_BUFFERS + 3 * numAgents

\* the mixer takes the step that ends the cycle and comes to lines 158-168
CycleEnds == pc = "send" /\ pc' = "mix"

\* C32: with the two threads interleaved statement by statement, the mixer
\* can take its next statement in every state, whatever addAgent is doing
\* and whatever the buffers hold; every statement it takes moves it forward
\* in its cycle or ends the cycle, and its position never passes the one
\* after the last agent: a cycle ends after a bounded number of the mixer's
\* own steps.
C32_CycleTerminates ==
    /\ [](ENABLED (MixerStep /\ MixerActs))
    /\ [](CyclePosition <= CycleLength)
    /\ [][MixerActs => (CyclePosition' > CyclePosition \/ CycleEnds)]_vars

\* the mixer is at the end of a cycle in which it found the peer's buffer
\* starved and stopped it, and sent the peer its frame all the same
C32_Witness ==
    /\ pc = "send"
    /\ loop = numAgents
    /\ numAgents = 1
    /\ sourceBuffers[0].nextOutput # 0
    /\ ~sourceBuffers[0].started
    /\ added[0] = NoFrame
    /\ sends = <<0>>

\* C33: the loop of sendBuffer looks for a request to stop once per cycle,
\* at the end of the cycle: when one has been made the thread leaves the loop
\* there (line 171) instead of starting the next cycle, and it never leaves
\* the loop from the middle of a cycle.
C33_StopsAtCycleBoundary ==
    [][/\ (SchedStep /\ sched'.stopRequested) => sched'.pc = "l171"
       /\ sched.pc = "l82" => sched'.pc # "l171"]_vars

----------------------------------------------------------------------------
\* AssetClient: the requests, the reply handlers and handleNodeKilled.  A
\* request of requests[] stands for the callback it registered: invoked
\* counts the calls of the callback, finished the emissions of finished.

\* what AssetClient does not touch
mainVars == <<agents, numAgents, sourceBuffers, masterMix, sendTime, pc, now,
              received, parity, added, previousOutput, longSamples, sent,
              sends, reported, outOfBounds, ingest, loop, sched, landingVars>>

\* the values of AssetServerError the callbacks tell apart; each of them is
\* one of the others to some callback
ServerErrors == {"NoError", "AssetNotFound", "PermissionDenied"}
MappingKinds == {"Get", "GetAll", "Set", "Delete"}
CacheValues == [Paths -> Hashes \cup {NoHash}]

\* what a null message can make of line 104: the process ends, or the read
\* goes on with whatever it finds
Crash == [crash |-> TRUE, read |-> EmptyCache]
NullMessageOutcomes == {Crash} \cup {[crash |-> FALSE, read |-> c] : c \in CacheValues}

NewRequest(kind, paths, hash) ==
    [kind |-> kind, paths |-> paths, hash |-> hash, error |-> "NoError",
     invoked |-> 0, responseReceived |-> TRUE, finished |-> 0,
     changedCache |-> FALSE]

\* a callback has returned: what it made of its request and of the cache
Returned(req, error, responseReceived, oldCache, newCache) ==
    [req |-> [req EXCEPT !.error = error,
                         !.invoked = @ + 1,
                         !.responseReceived = responseReceived,
                         !.finished = @ + 1,
                         !.changedCache = (newCache # oldCache)],
     cache |-> newCache,
     crashed |-> FALSE]

\* the callback of GetMappingRequest::doStart (lines 57-79)
GetMappingCallback(req, cache, responseReceived, error, hash) ==
    LET err == IF ~responseReceived THEN "NetworkError"
               ELSE CASE error = "NoError" -> "NoError"
                      [] error = "AssetNotFound" -> "NotFound"
                      [] OTHER -> "UnknownError"
        path == CHOOSE p \in req.paths : TRUE
    IN IF err = "NoError"
       THEN Returned([req EXCEPT !.hash = hash], err, responseReceived, cache,
                     [cache EXCEPT ![path] = hash])
       ELSE Returned(req, err, responseReceived, cache, cache)

\* the callback of GetAllMappingsRequest::doStart (lines 87-114); message is
\* null when responseReceived is false (line 719)
GetAllMappingsCallback(req, cache, responseReceived, error, mappings, ub) ==
    LET err == IF ~responseReceived THEN "NetworkError"
               ELSE CASE error = "NoError" -> "NoError"
                      [] OTHER -> "UnknownError"
    IN IF error = "NoError"
       THEN IF responseReceived
            THEN Returned(req, err, responseReceived, cache, mappings)
            ELSE IF ub.crash
                 THEN [req |-> [req EXCEPT !.error = err, !.invoked = @ + 1,
                                           !.responseReceived = FALSE],
                       cache |-> cache,
                       crashed |-> TRUE]
                 ELSE Returned(req, err, responseReceived, cache, ub.read)
       ELSE Returned(req, err, responseReceived, cache, cache)

\* the callback of SetMappingRequest::doStart (lines 122-143)
SetMappingCallback(req, cache, responseReceived, error) ==
    LET err == IF ~responseReceived THEN "NetworkError"
               ELSE CASE error = "NoError" -> "NoError"
                      [] error = "PermissionDenied" -> "PermissionDenied"
                      [] OTHER -> "UnknownError"
        path == CHOOSE p \in req.paths : TRUE
    IN IF error = "NoError"
       THEN Returned(req, err, responseReceived, cache,
                     [cache EXCEPT ![path] = req.hash])
       ELSE Returned(req, err, responseReceived, cache, cache)

\* the callback of DeleteMappingsRequest::doStart (lines 151-175)
DeleteMappingsCallback(req, cache, responseReceived, error) ==
    LET err == IF ~responseReceived THEN "NetworkError"
               ELSE CASE error = "NoError" -> "NoError"
                      [] error = "PermissionDenied" -> "PermissionDenied"
                      [] OTHER -> "UnknownError"
    IN IF error = "NoError"
       THEN Returned(req, err, responseReceived, cache,
                     [p \in Paths |-> IF p \in req.paths THEN NoHash ELSE cache[p]])
       ELSE Returned(req, err, responseReceived, cache, cache)

\* a callback the caller of getAsset, getAssetInfo, uploadAsset or
\* renameAssetMapping passed: it is not of this file and has no part in
\* _mappingCache
CallerCallback(req, cache, responseReceived) ==
    [req |-> [req EXCEPT !.invoked = @ + 1, !.responseReceived = responseReceived],
     cache |-> cache,
     crashed |-> FALSE]

\* the call callback(responseReceived, error, message) of a pending entry
InvokeCallback(req, cache, responseReceived, error, hash, mappings, ub) ==
    CASE req.kind = "Get" -> GetMappingCallback(req, cache, responseReceived, error, hash)
      [] req.kind = "GetAll" ->
             GetAllMappingsCallback(req, cache, responseReceived, error, mappings, ub)
      [] req.kind = "Set" -> SetMappingCallback(req, cache, responseReceived, error)
      [] req.kind = "Delete" -> DeleteMappingsCallback(req, cache, responseReceived, error)
      [] OTHER -> CallerCallback(req, cache, responseReceived)

\* soloNodeOfType(NodeType::AssetServer): an asset server of the node list,
\* or null (0)
SoloNodeOfType == IF nodeList \cap AssetServers = {} THEN {0} ELSE nodeList \cap AssetServers

\* auto messageID = ++_currentID
NextID == (currentID + 1) % MessageIdValues

\* pending[assetServer][messageID] = callback
Register(pending, assetServer, r) == [pending EXCEPT ![assetServer][NextID] = r]

CanRequest == ~crashed /\ Len(requests) < MaxRequests

\* getAsset (lines 350-386), with a hash of the right length or not
GetAsset ==
    /\ CanRequest
    /\ \E validHash \in BOOLEAN, assetServer \in SoloNodeOfType :
          IF validHash /\ assetServer # 0
          THEN /\ currentID' = NextID
               /\ requests' = Append(requests, NewRequest("Asset", {}, NoHash))
               /\ pendingRequests' = Register(pendingRequests, assetServer, Len(requests) + 1)
               /\ event' = NoEvent
          ELSE /\ event' = NoEvent
               /\ UNCHANGED <<currentID, requests, pendingRequests>>
    /\ UNCHANGED <<pendingInfoRequests, pendingUploads, pendingMappingRequests,
                   mappingCache, nodeList, receiving, crashed, mainVars>>

\* getAssetInfo (lines 388-407), for the first max requests
GetAssetInfoUpTo(max) ==
    /\ ~crashed
    /\ Len(requests) < max
    /\ \E assetServer \in SoloNodeOfType :
          IF assetServer # 0
          THEN /\ currentID' = NextID
               /\ requests' = Append(requests, NewRequest("Info", {}, NoHash))
               /\ pendingInfoRequests' =
                      Register(pendingInfoRequests, assetServer, Len(requests) + 1)
               /\ event' = NoEvent
          ELSE /\ event' = NoEvent
               /\ UNCHANGED <<currentID, requests, pendingInfoRequests>>
    /\ UNCHANGED <<pendingRequests, pendingUploads, pendingMappingRequests,
                   mappingCache, nodeList, receiving, crashed, mainVars>>

GetAssetInfo == GetAssetInfoUpTo(MaxRequests)

\* uploadAsset (lines 615-640)
UploadAsset ==
    /\ CanRequest
    /\ \E assetServer \in SoloNodeOfType :
          IF assetServer # 0
          THEN /\ currentID' = NextID
               /\ requests' = Append(requests, NewRequest("Upload", {}, NoHash))
               /\ pendingUploads' = Register(pendingUploads, assetServer, Len(requests) + 1)
               /\ event' = NoEvent
          ELSE /\ event' = NoEvent
               /\ UNCHANGED <<currentID, requests, pendingUploads>>
    /\ UNCHANGED <<pendingRequests, pendingInfoRequests, pendingMappingRequests,
                   mappingCache, nodeList, receiving, crashed, mainVars>>

\* getAssetMapping, getAllAssetMappings, deleteAssetMappings, setAssetMapping
\* and renameAssetMapping (lines 494-613) with the callback of req: the
\* state they leave, whether they return true or false
MappingOperation(req) ==
    /\ requests' = Append(requests, req)
    /\ \E assetServer \in SoloNodeOfType :
          IF assetServer # 0
          THEN /\ currentID' = NextID
               /\ pendingMappingRequests' =
                      Register(pendingMappingRequests, assetServer, Len(requests) + 1)
               /\ event' = NoEvent
          ELSE /\ event' = NoEvent
               /\ UNCHANGED <<currentID, pendingMappingRequests>>
    /\ UNCHANGED <<pendingRequests, pendingInfoRequests, pendingUploads,
                   mappingCache, nodeList, receiving, crashed, mainVars>>

\* renameAssetMapping (lines 590-613), called with a callback of the caller
RenameAssetMapping ==
    /\ CanRequest
    /\ MappingOperation(NewRequest("Rename", {}, NoHash))

\* MappingRequest::start and GetMappingRequest::doStart (lines 34-80)
StartGetMapping ==
    /\ CanRequest
    /\ \E path \in Paths :
          IF mappingCache[path] # NoHash
          THEN /\ requests' = Append(requests,
                       [NewRequest("Get", {path}, mappingCache[path]) EXCEPT !.finished = 1])
               /\ event' = NoEvent
               /\ UNCHANGED <<currentID, pendingRequests, pendingInfoRequests,
                              pendingUploads, pendingMappingRequests, mappingCache,
                              nodeList, receiving, crashed, mainVars>>
          ELSE MappingOperation(NewRequest("Get", {path}, NoHash))

\* GetAllMappingsRequest::doStart (lines 85-115)
StartGetAllMappings ==
    /\ CanRequest
    /\ MappingOperation(NewRequest("GetAll", {}, NoHash))

\* SetMappingRequest::doStart (lines 120-144)
StartSetMapping ==
    /\ CanRequest
    /\ \E path \in Paths, hash \in Hashes :
          MappingOperation(NewRequest("Set", {path}, hash))

\* DeleteMappingsRequest::doStart (lines 149-176)
StartDeleteMappings ==
    /\ CanRequest
    /\ \E paths \in SUBSET Paths \ {{}} :
          MappingOperation(NewRequest("Delete", paths, NoHash))

\* the reply handlers without the erase of the entry they called
ReplyTo_KeepsEntry(pending, senderNode, messageID, error, hash, mappings) ==
    LET r == pending[senderNode][messageID]
        out == InvokeCallback(requests[r], mappingCache, TRUE, error, hash, mappings, Crash)
    IN IF r # NoRequest
       THEN [requests |-> [requests EXCEPT ![r] = out.req],
             cache |-> out.cache,
             pending |-> pending,
             found |-> TRUE]
       ELSE [requests |-> requests, cache |-> mappingCache, pending |-> pending,
             found |-> FALSE]

\* the lookup and the call the reply handlers share: the entry of
\* pending[senderNode][messageID] is called with responseReceived = true and
\* erased; without an entry nothing is done
ReplyTo(pending, senderNode, messageID, error, hash, mappings) ==
    LET r == pending[senderNode][messageID]
        out == InvokeCallback(requests[r], mappingCache, TRUE, error, hash, mappings, Crash)
    IN IF r # NoRequest
       THEN [requests |-> [requests EXCEPT ![r] = out.req],
             cache |-> out.cache,
             pending |-> [pending EXCEPT ![senderNode][messageID] = NoRequest],
             found |-> TRUE]
       ELSE [requests |-> requests, cache |-> mappingCache, pending |-> pending,
             found |-> FALSE]

\* the replies a pending map can meet: one for each of its entries, and one
\* that finds no entry, which stands for all of them since the handlers do
\* the same for each
WithEntry(pending) ==
    {x \in Nodes \X MessageIds : pending[x[1]][x[2]] # NoRequest}
Senders(pending) ==
    WithEntry(pending) \cup
        (IF (Nodes \X MessageIds) \ WithEntry(pending) = {} THEN {}
         ELSE {CHOOSE x \in (Nodes \X MessageIds) \ WithEntry(pending) : TRUE})

\* what of a reply reaches the callback: the error for any entry, a hash for
\* the callback of a GetMappingRequest, the mappings for the callback of a
\* GetAllMappingsRequest.  A reply without an entry reaches no callback.
KindOf(pending, senderNode, messageID) ==
    IF pending[senderNode][messageID] = NoRequest THEN "none"
    ELSE requests[pending[senderNode][messageID]].kind
ErrorsRead(pending, senderNode, messageID) ==
    IF KindOf(pending, senderNode, messageID) = "none" THEN {"NoError"} ELSE ServerErrors
HashesRead(pending, senderNode, messageID) ==
    IF KindOf(pending, senderNode, messageID) = "Get" THEN Hashes ELSE {NoHash}
MappingsRead(pending, senderNode, messageID) ==
    IF KindOf(pending, senderNode, messageID) = "GetAll" THEN CacheValues ELSE {EmptyCache}

\* handleAssetMappingOperationReply (lines 248-273)
HandleAssetMappingOperationReply ==
    /\ ~crashed
    /\ \E senderNode \in Nodes, messageID \in MessageIds :
       /\ <<senderNode, messageID>> \in Senders(pendingMappingRequests)
       /\ \E error \in ErrorsRead(pendingMappingRequests, senderNode, messageID),
          hash \in HashesRead(pendingMappingRequests, senderNode, messageID),
          mappings \in MappingsRead(pendingMappingRequests, senderNode, messageID) :
          LET out == ReplyTo(pendingMappingRequests, senderNode, messageID, error,
                             hash, mappings)
          IN /\ requests' = out.requests
             /\ mappingCache' = out.cache
             /\ pendingMappingRequests' = out.pending
             /\ event' = [op |-> "reply", found |-> out.found]
    /\ UNCHANGED <<currentID, pendingRequests, pendingInfoRequests, pendingUploads,
                   nodeList, receiving, crashed, mainVars>>

\* handleAssetGetInfoReply (lines 409-441)
HandleAssetGetInfoReply ==
    /\ ~crashed
    /\ \E senderNode \in Nodes, messageID \in MessageIds :
       /\ <<senderNode, messageID>> \in Senders(pendingInfoRequests)
       /\ \E error \in ErrorsRead(pendingInfoRequests, senderNode, messageID) :
          LET out == ReplyTo(pendingInfoRequests, senderNode, messageID, error,
                             NoHash, EmptyCache)
          IN /\ requests' = out.requests
             /\ pendingInfoRequests' = out.pending
             /\ event' = [op |-> "reply", found |-> out.found]
    /\ UNCHANGED <<currentID, pendingRequests, pendingUploads, pendingMappingRequests,
                   mappingCache, nodeList, receiving, crashed, mainVars>>

\* handleAssetUploadReply (lines 642-678)
HandleAssetUploadReply ==
    /\ ~crashed
    /\ \E senderNode \in Nodes, messageID \in MessageIds :
       /\ <<senderNode, messageID>> \in Senders(pendingUploads)
       /\ \E error \in ErrorsRead(pendingUploads, senderNode, messageID) :
          LET out == ReplyTo(pendingUploads, senderNode, messageID, error,
                             NoHash, EmptyCache)
          IN /\ requests' = out.requests
             /\ pendingUploads' = out.pending
             /\ event' = [op |-> "reply", found |-> out.found]
    /\ UNCHANGED <<currentID, pendingRequests, pendingInfoRequests,
                   pendingMappingRequests, mappingCache, nodeList, receiving,
                   crashed, mainVars>>

\* handleAssetGetReply (lines 443-492): a complete message calls the
\* callback at once, an incomplete one leaves the call to its completion
HandleAssetGetReply ==
    /\ ~crashed
    /\ \E senderNode \in Nodes, messageID \in MessageIds :
       /\ <<senderNode, messageID>> \in Senders(pendingRequests)
       /\ \E error \in ErrorsRead(pendingRequests, senderNode, messageID),
          isComplete \in BOOLEAN :
          LET r == pendingRequests[senderNode][messageID]
              out == ReplyTo(pendingRequests, senderNode, messageID, error,
                             NoHash, EmptyCache)
          IN /\ requests' = IF isComplete THEN out.requests ELSE requests
             /\ receiving' = IF isComplete \/ r = NoRequest THEN receiving
                             ELSE receiving \cup {r}
             /\ pendingRequests' = out.pending
             /\ event' = [op |-> "reply", found |-> out.found]
    /\ UNCHANGED <<currentID, pendingInfoRequests, pendingUploads,
                   pendingMappingRequests, mappingCache, nodeList, crashed, mainVars>>

\* the lambda handleAssetGetReply connects to ReceivedMessage::completed
\* (lines 479-485)
MessageCompleted ==
    /\ ~crashed
    /\ \E r \in receiving, failed \in BOOLEAN :
          /\ requests' = [requests EXCEPT
                             ![r] = CallerCallback(@, mappingCache, ~failed).req]
          /\ receiving' = receiving \ {r}
          /\ event' = NoEvent
    /\ UNCHANGED <<currentID, pendingRequests, pendingInfoRequests, pendingUploads,
                   pendingMappingRequests, mappingCache, nodeList, crashed, mainVars>>

\* the loop of handleNodeKilled over one pending map: each entry is called
\* with responseReceived = false; order is the order the unordered_map
\* yields its entries in, which no callback of a caller depends on
RECURSIVE InvokeAll(_, _, _, _)
InvokeAll(st, callbackMap, order, ub) ==
    IF order = <<>> \/ st.crashed
    THEN st
    ELSE LET r == callbackMap[Head(order)]
             out == InvokeCallback(st.requests[r], st.cache, FALSE, "NoError",
                                   NoHash, EmptyCache, ub)
         IN IF r = NoRequest
            THEN InvokeAll(st, callbackMap, Tail(order), ub)
            ELSE InvokeAll([requests |-> [st.requests EXCEPT ![r] = out.req],
                            cache |-> out.cache,
                            crashed |-> out.crashed],
                           callbackMap, Tail(order), ub)

\* the orders an unordered_map can yield its entries in
Entries(callbackMap) == {m \in MessageIds : callbackMap[m] # NoRequest}
Orders(callbackMap) ==
    {o \in [1..Cardinality(Entries(callbackMap)) -> Entries(callbackMap)] :
        \A i, j \in DOMAIN o : i # j => o[i] # o[j]}

\* a null message is read by the callback of a GetAllMappingsRequest only
NullMessagesRead(callbackMap) ==
    IF \E m \in Entries(callbackMap) : requests[callbackMap[m]].kind = "GetAll"
    THEN NullMessageOutcomes ELSE {Crash}

AnyOrder(callbackMap) == CHOOSE o \in Orders(callbackMap) : TRUE

\* messageMapIt->second.clear()
Cleared(pending, node) == [pending EXCEPT ![node] = [m \in MessageIds |-> NoRequest]]

\* handleNodeKilled (lines 680-727) for a node the node list held
HandleNodeKilled ==
    /\ ~crashed
    /\ \E node \in nodeList :
          /\ nodeList' = nodeList \ {node}
          /\ IF node \notin AssetServers
             THEN /\ event' = NoEvent
                  /\ UNCHANGED <<requests, mappingCache, pendingRequests,
                                 pendingInfoRequests, pendingUploads,
                                 pendingMappingRequests, crashed>>
             ELSE \E order \in Orders(pendingMappingRequests[node]),
                     ub \in NullMessagesRead(pendingMappingRequests[node]) :
                    LET st0 == [requests |-> requests, cache |-> mappingCache,
                                crashed |-> FALSE]
                        st1 == InvokeAll(st0, pendingRequests[node],
                                         AnyOrder(pendingRequests[node]), ub)
                        st2 == InvokeAll(st1, pendingInfoRequests[node],
                                         AnyOrder(pendingInfoRequests[node]), ub)
                        st3 == InvokeAll(st2, pendingUploads[node],
                                         AnyOrder(pendingUploads[node]), ub)
                        st4 == InvokeAll(st3, pendingMappingRequests[node], order, ub)
                    IN /\ requests' = st4.requests
                       /\ crashed' = st4.crashed
                       /\ pendingRequests' = Cleared(pendingRequests, node)
                       /\ pendingInfoRequests' = Cleared(pendingInfoRequests, node)
                       /\ pendingUploads' = Cleared(pendingUploads, node)
                       /\ pendingMappingRequests' =
                              IF st4.crashed THEN pendingMappingRequests
                              ELSE Cleared(pendingMappingRequests, node)
                       /\ mappingCache' = IF st4.crashed THEN st4.cache ELSE EmptyCache
                       /\ event' = NoEvent
    /\ UNCHANGED <<currentID, receiving, mainVars>>

\* a node joins the node list
NodeAdded ==
    /\ ~crashed
    /\ \E node \in Nodes \ nodeList :
          /\ nodeList' = nodeList \cup {node}
          /\ event' = NoEvent
    /\ UNCHANGED <<currentID, pendingRequests, pendingInfoRequests, pendingUploads,
                   pendingMappingRequests, mappingCache, requests, receiving,
                   crashed, mainVars>>

\* clearCache (lines 229-243)
ClearCache ==
    /\ ~crashed
    /\ mappingCache' = EmptyCache
    /\ event' = NoEvent
    /\ UNCHANGED <<currentID, pendingRequests, pendingInfoRequests, pendingUploads,
                   pendingMappingRequests, nodeList, requests, receiving, crashed,
                   mainVars>>

NextAsset ==
    \/ GetAsset \/ GetAssetInfo \/ UploadAsset \/ RenameAssetMapping
    \/ StartGetMapping \/ StartGetAllMappings \/ StartSetMapping \/ StartDeleteMappings
    \/ HandleAssetMappingOperationReply \/ HandleAssetGetInfoReply
    \/ HandleAssetUploadReply \/ HandleAssetGetReply \/ MessageCompleted
    \/ HandleNodeKilled \/ NodeAdded \/ ClearCache

SpecAsset == Init /\ [][NextAsset]_vars

\* AssetClient asked for the info of more assets than a message ID has
\* values, by a caller that goes on asking whether or not it is answered
MaxIdRequests == 5
GetAssetInfoIds == GetAssetInfoUpTo(MaxIdRequests)

NextIds == GetAssetInfoIds \/ HandleAssetGetInfoReply \/ HandleNodeKilled \/ NodeAdded

SpecIds == Init /\ [][NextIds]_vars

----------------------------------------------------------------------------
\* C34: AssetClient: across any sequence of requests, replies (duplicate
\* replies and replies with unknown message IDs included) and node-killed
\* events, each callback registered by getAssetInfo, uploadAsset or a mapping
\* operation is invoked at most once, and a reply that matches no pending
\* entry invokes no callback and changes no pending map.
RegisteredKinds == {"Info", "Upload", "Rename"} \cup MappingKinds
PendingMaps == <<pendingRequests, pendingInfoRequests, pendingUploads,
                 pendingMappingRequests>>
ReplyWithoutEntry == event'.op = "reply" /\ ~event'.found
C34_CallbackAtMostOnce ==
    /\ [](\A r \in DOMAIN requests :
             requests[r].kind \in RegisteredKinds => requests[r].invoked <= 1)
    /\ [][ReplyWithoutEntry => UNCHANGED <<requests, PendingMaps>>]_vars

\* a reply has come again for a callback that has been invoked
C34_Witness ==
    /\ event.op = "reply" /\ ~event.found
    /\ \E r \in DOMAIN requests :
          requests[r].kind \in RegisteredKinds /\ requests[r].invoked = 1

----------------------------------------------------------------------------
\* C35: AssetClient: when an asset-server node is killed, every callback
\* pending for that node in all four pending maps is invoked exactly once
\* with responseReceived = false, after which that node's pending maps are
\* empty and the mapping cache is empty; when a node of any other type is
\* killed, no callback is invoked and no state changes.
PendingFor(node) ==
    {pendingRequests[node][m] : m \in MessageIds}
        \cup {pendingInfoRequests[node][m] : m \in MessageIds}
        \cup {pendingUploads[node][m] : m \in MessageIds}
        \cup {pendingMappingRequests[node][m] : m \in MessageIds}
NoneFor(node) == [m \in MessageIds |-> NoRequest]
KilledAssetServer(node) ==
    /\ \A r \in PendingFor(node) \ {NoRequest} :
          /\ requests'[r].invoked = requests[r].invoked + 1
          /\ ~requests'[r].responseReceived
    /\ \A r \in DOMAIN requests \ PendingFor(node) : requests'[r] = requests[r]
    /\ pendingRequests'[node] = NoneFor(node)
    /\ pendingInfoRequests'[node] = NoneFor(node)
    /\ pendingUploads'[node] = NoneFor(node)
    /\ pendingMappingRequests'[node] = NoneFor(node)
    /\ mappingCache' = EmptyCache
KilledOtherNode ==
    UNCHANGED <<currentID, PendingMaps, mappingCache, requests, receiving, crashed>>
C35_NodeKilledFailsAllPending ==
    [][\A node \in nodeList \ nodeList' :
          IF node \in AssetServers THEN KilledAssetServer(node) ELSE KilledOtherNode]_vars

----------------------------------------------------------------------------
\* C36: AssetClient: every mapping request that is started (Get, GetAll,
\* Set, Delete) eventually emits finished exactly once, also when no asset
\* server is connected at the moment it starts.  finished is emitted by
\* doStart itself or by the callback doStart registered, so the claim needs
\* that finished is never emitted twice and that a request that has not
\* emitted it has its callback in _pendingMappingRequests, where a reply or
\* the death of the node finds it.
AwaitsReply(r) ==
    \E node \in Nodes, m \in MessageIds : pendingMappingRequests[node][m] = r
C36_StartedRequestFinishes ==
    \A r \in DOMAIN requests :
       requests[r].kind \in MappingKinds =>
          /\ requests[r].finished <= 1
          /\ requests[r].finished = 0 => AwaitsReply(r)

\* C37: AssetClient: the mapping cache is changed by a Get, GetAll, Set or
\* Delete mapping request only when that request finishes with NoError (a
\* response was received and the server reported no error); a request that
\* ends with NetworkError or a server error leaves the cache as it was when
\* the request's callback ran.
C37_CacheChangesOnlyOnSuccess ==
    \A r \in DOMAIN requests :
       (requests[r].kind \in MappingKinds /\ requests[r].error # "NoError")
          => ~requests[r].changedCache

----------------------------------------------------------------------------
\* C38: AssetClient: every request sent gets a message ID that no request
\* still pending for the same node holds (IDs come from one counter
\* incremented per request, of bounded width), so registering a new pending
\* callback never overwrites one that has not been answered.
HoldsID(node, m) ==
    \/ pendingRequests[node][m] # NoRequest
    \/ pendingInfoRequests[node][m] # NoRequest
    \/ pendingUploads[node][m] # NoRequest
    \/ pendingMappingRequests[node][m] # NoRequest
SentTo(node) ==
    /\ currentID' # currentID
    /\ \/ pendingRequests'[node][currentID'] # pendingRequests[node][currentID']
       \/ pendingInfoRequests'[node][currentID'] # pendingInfoRequests[node][currentID']
       \/ pendingUploads'[node][currentID'] # pendingUploads[node][currentID']
       \/ pendingMappingRequests'[node][currentID'] #
              pendingMappingRequests[node][currentID']
C38_MessageIDIsFresh ==
    [][\A node \in Nodes : SentTo(node) => ~HoldsID(node, currentID')]_vars

----------------------------------------------------------------------------
\* SafeLanding.  Every method takes _lock for what it does to the members,
\* so what runs under the lock is one step; addTrackedEntity,
\* noteReceivedsequenceNumber and isSequenceNumbersComplete test a member
\* before they take the lock, and the test is a step of its own.

\* what SafeLanding does not touch
nonLandingVars == <<agents, numAgents, sourceBuffers, masterMix, sendTime, pc, now,
                    received, parity, added, previousOutput, longSamples, sent,
                    sends, reported, outOfBounds, ingest, loop, sched, assetVars>>

\* lessThanWraparound (lines 22-28)
lessThanWraparound(a, b) ==
    LET wrapped == IF b <= a THEN b + MAX_T_VALUE ELSE b
    IN (wrapped - a) < (MAX_T_VALUE \div 2)

\* _sequenceNumbers is a std::set ordered by SequenceLessThan (lines 31-33):
\* lower_bound, find and insert, with 0 for end()
LowerBound(s, x) ==
    IF \E i \in DOMAIN s : ~lessThanWraparound(s[i], x)
    THEN CHOOSE i \in DOMAIN s :
            /\ ~lessThanWraparound(s[i], x)
            /\ \A j \in 1..(i - 1) : lessThanWraparound(s[j], x)
    ELSE 0
SetFind(s, x) ==
    LET i == LowerBound(s, x)
    IN IF i # 0 /\ ~lessThanWraparound(x, s[i]) THEN i ELSE 0
SetInsert(s, x) ==
    LET i == LowerBound(s, x)
    IN IF i = 0 THEN Append(s, x)
       ELSE IF ~lessThanWraparound(x, s[i]) THEN s
       ELSE SubSeq(s, 1, i - 1) \o <<x>> \o SubSeq(s, i, Len(s))

\* the first and last that setCompletionSequenceNumbers is given: a range of
\* the sequence numbers of the landing, last being one past its end
CompletionNumbers ==
    {<<SequenceAt(i), (SequenceAt(j) + 1) % SEQUENCE_MODULO>> :
        i \in 0..(NumSequenceNumbers - 1), j \in 0..(NumSequenceNumbers - 1)}
    \cup {<<n, n>> : n \in SequenceNumbers}
ForwardRanges ==
    {c \in CompletionNumbers :
        (c[2] - c[1] + SEQUENCE_MODULO) % SEQUENCE_MODULO <= NumSequenceNumbers}

Idle == ~calls.crashed

\* startEntitySequence (lines 34-53)
StartEntitySequence ==
    /\ Idle
    /\ \E hasTree \in BOOLEAN :
          IF hasTree
          THEN /\ entityTree' = TRUE
               /\ trackedEntitiesRenderStatus' = {}
               /\ trackedEntities' = {}
               /\ trackingEntities' = TRUE
               /\ sequenceNumbers' = <<>>
               /\ initialStart' = INVALID_SEQUENCE
               /\ initialEnd' = INVALID_SEQUENCE
          ELSE UNCHANGED <<entityTree, trackedEntitiesRenderStatus, trackedEntities,
                           trackingEntities, sequenceNumbers, initialStart, initialEnd>>
    /\ UNCHANGED <<maxTrackedEntityCount, calls, nonLandingVars>>

\* stopEntitySequence (lines 55-63)
StopEntitySequence ==
    /\ Idle
    /\ trackingEntities' = FALSE
    /\ maxTrackedEntityCount' = 0
    /\ initialStart' = INVALID_SEQUENCE
    /\ initialEnd' = INVALID_SEQUENCE
    /\ trackedEntities' = {}
    /\ sequenceNumbers' = <<>>
    /\ UNCHANGED <<trackedEntitiesRenderStatus, entityTree, calls, nonLandingVars>>

\* addTrackedEntity, the test of line 66: a call that finds the tracking off
\* returns
AddTrackedEntityTest ==
    /\ Idle
    /\ calls.add = NoEntity
    /\ trackingEntities
    /\ \E entityID \in Entities : calls' = [calls EXCEPT !.add = entityID]
    /\ UNCHANGED <<trackingEntities, trackedEntities, trackedEntitiesRenderStatus,
                   maxTrackedEntityCount, entityTree, sequenceNumbers, initialStart,
                   initialEnd, nonLandingVars>>

\* addTrackedEntity under the lock (lines 67-91).  tracked says whether the
\* entity is found, collides and has a downloaded collision shape;
\* _entityTree->findEntityByID on a null _entityTree ends the process.
AddTrackedEntityBody ==
    /\ Idle
    /\ calls.add # NoEntity
    /\ IF entityTree
       THEN \E tracked \in BOOLEAN :
              /\ trackedEntities' = IF tracked THEN trackedEntities \cup {calls.add}
                                    ELSE trackedEntities
              /\ trackedEntitiesRenderStatus' = trackedEntitiesRenderStatus \cup {calls.add}
              /\ maxTrackedEntityCount' =
                     IF Cardinality(trackedEntitiesRenderStatus') > maxTrackedEntityCount
                     THEN Cardinality(trackedEntitiesRenderStatus')
                     ELSE maxTrackedEntityCount
              /\ calls' = [calls EXCEPT !.add = NoEntity]
       ELSE /\ calls' = [calls EXCEPT !.add = NoEntity, !.crashed = TRUE]
            /\ UNCHANGED <<trackedEntities, trackedEntitiesRenderStatus,
                           maxTrackedEntityCount>>
    /\ UNCHANGED <<trackingEntities, entityTree, sequenceNumbers, initialStart,
                   initialEnd, nonLandingVars>>

\* deleteTrackedEntity (lines 95-99)
DeleteTrackedEntity ==
    /\ Idle
    /\ \E entityID \in Entities :
          /\ trackedEntities' = trackedEntities \ {entityID}
          /\ trackedEntitiesRenderStatus' = trackedEntitiesRenderStatus \ {entityID}
    /\ UNCHANGED <<trackingEntities, maxTrackedEntityCount, entityTree, sequenceNumbers,
                   initialStart, initialEnd, calls, nonLandingVars>>

\* setCompletionSequenceNumbers (lines 101-107)
SetCompletionSequenceNumbers ==
    /\ Idle
    /\ \E c \in ForwardRanges :
          IF initialStart = INVALID_SEQUENCE
          THEN initialStart' = c[1] /\ initialEnd' = c[2]
          ELSE UNCHANGED <<initialStart, initialEnd>>
    /\ UNCHANGED <<trackingEntities, trackedEntities, trackedEntitiesRenderStatus,
                   maxTrackedEntityCount, entityTree, sequenceNumbers, calls,
                   nonLandingVars>>

\* noteReceivedsequenceNumber, the test of line 110
NoteReceivedTest ==
    /\ Idle
    /\ calls.note = INVALID_SEQUENCE
    /\ trackingEntities
    /\ \E sequenceNumber \in SequenceNumbers :
          calls' = [calls EXCEPT !.note = sequenceNumber]
    /\ UNCHANGED <<trackingEntities, trackedEntities, trackedEntitiesRenderStatus,
                   maxTrackedEntityCount, entityTree, sequenceNumbers, initialStart,
                   initialEnd, nonLandingVars>>

\* noteReceivedsequenceNumber under the lock (lines 111-112)
NoteReceivedBody ==
    /\ Idle
    /\ calls.note # INVALID_SEQUENCE
    /\ sequenceNumbers' = SetInsert(sequenceNumbers, calls.note)
    /\ calls' = [calls EXCEPT !.note = INVALID_SEQUENCE]
    /\ UNCHANGED <<trackingEntities, trackedEntities, trackedEntitiesRenderStatus,
                   maxTrackedEntityCount, entityTree, initialStart, initialEnd,
                   nonLandingVars>>

\* isLoadSequenceComplete calls isEntityPhysicsComplete (lines 158-170),
\* which drops entities that are ready or not physical and says whether
\* none is left; with some left isLoadSequenceComplete returns
IsEntityPhysicsComplete ==
    /\ Idle
    /\ calls.load = "idle"
    /\ \E left \in SUBSET trackedEntities :
          /\ trackedEntities' = left
          /\ calls' = [calls EXCEPT !.load = IF left = {} THEN "test" ELSE "idle",
                                    !.result = "none"]
    /\ UNCHANGED <<trackingEntities, trackedEntitiesRenderStatus, maxTrackedEntityCount,
                   entityTree, sequenceNumbers, initialStart, initialEnd,
                   nonLandingVars>>

\* isSequenceNumbersComplete, the test of line 141
IsSequenceNumbersCompleteTest ==
    /\ Idle
    /\ calls.load = "test"
    /\ calls' = IF initialStart # INVALID_SEQUENCE
                THEN [calls EXCEPT !.load = "body"]
                ELSE [calls EXCEPT !.load = "idle", !.result = "false"]
    /\ UNCHANGED <<trackingEntities, trackedEntities, trackedEntitiesRenderStatus,
                   maxTrackedEntityCount, entityTree, sequenceNumbers, initialStart,
                   initialEnd, nonLandingVars>>

\* what isSequenceNumbersComplete computes under the lock (lines 143-150)
SequenceSize ==
    IF initialStart <= initialEnd THEN initialEnd - initialStart
    ELSE initialEnd + SEQUENCE_MODULO - initialStart
SequenceComplete ==
    LET startIter == SetFind(sequenceNumbers, initialStart)
        endIter == SetFind(sequenceNumbers, initialEnd - 1)
    IN \/ SequenceSize = 0
       \/ /\ startIter # 0
          /\ endIter # 0
          /\ endIter - startIter = SequenceSize - 1

\* isSequenceNumbersComplete under the lock (lines 142-155)
IsSequenceNumbersCompleteBody ==
    /\ Idle
    /\ calls.load = "body"
    /\ IF SequenceComplete
       THEN /\ trackingEntities' = FALSE
            /\ calls' = [calls EXCEPT !.load = "finish", !.result = "true"]
       ELSE /\ calls' = [calls EXCEPT !.load = "idle", !.result = "false"]
            /\ UNCHANGED trackingEntities
    /\ UNCHANGED <<trackedEntities, trackedEntitiesRenderStatus, maxTrackedEntityCount,
                   entityTree, sequenceNumbers, initialStart, initialEnd,
                   nonLandingVars>>

\* isLoadSequenceComplete after both are complete (lines 117-124)
IsLoadSequenceCompleteFinish ==
    /\ Idle
    /\ calls.load = "finish"
    /\ trackedEntities' = {}
    /\ initialStart' = INVALID_SEQUENCE
    /\ initialEnd' = INVALID_SEQUENCE
    /\ entityTree' = FALSE
    /\ calls' = [calls EXCEPT !.load = "idle"]
    /\ UNCHANGED <<trackingEntities, trackedEntitiesRenderStatus, maxTrackedEntityCount,
                   sequenceNumbers, nonLandingVars>>

NextLanding ==
    \/ StartEntitySequence \/ StopEntitySequence
    \/ AddTrackedEntityTest \/ AddTrackedEntityBody \/ DeleteTrackedEntity
    \/ SetCompletionSequenceNumbers \/ NoteReceivedTest \/ NoteReceivedBody
    \/ IsEntityPhysicsComplete \/ IsSequenceNumbersCompleteTest
    \/ IsSequenceNumbersCompleteBody \/ IsLoadSequenceCompleteFinish

SpecLanding == Init /\ [][NextLanding]_vars

----------------------------------------------------------------------------
\* C39: SafeLanding: isSequenceNumbersComplete returns true exactly when
\* completion numbers have been set and every sequence number from
\* _initialStart up to but not including _initialEnd, counted modulo
\* SEQUENCE_MODULO (ranges that wrap past the maximum sequence number
\* included), has been noted; otherwise it returns false and tracking stays
\* on.
RangeLength == (initialEnd - initialStart + SEQUENCE_MODULO) % SEQUENCE_MODULO
InRange == {(initialStart + k) % SEQUENCE_MODULO : k \in 0..(RangeLength - 1)}
Noted(n) == \E i \in DOMAIN sequenceNumbers : sequenceNumbers[i] = n
AllNoted == initialStart # INVALID_SEQUENCE /\ \A n \in InRange : Noted(n)
Returns == calls.load \in {"test", "body"} /\ calls'.load \notin {"test", "body"}
C39_TrueExactlyWhenAllNoted ==
    [][Returns =>
          /\ (calls'.result = "true") <=> AllNoted
          /\ calls'.result = "false" => trackingEntities' = trackingEntities]_vars

----------------------------------------------------------------------------
\* C40: SafeLanding: once isSequenceNumbersComplete has returned true or
\* stopEntitySequence has run, tracking is off, and addTrackedEntity and
\* noteReceivedsequenceNumber change neither the tracked-entity maps nor the
\* set of received sequence numbers until startEntitySequence is called
\* again.
AddRuns == calls.add # NoEntity /\ calls'.add = NoEntity
NoteRuns == calls.note # INVALID_SEQUENCE /\ calls'.note = INVALID_SEQUENCE
C40_NothingTrackedWhenOff ==
    [][/\ (Returns /\ calls'.result = "true") => ~trackingEntities'
       /\ (~trackingEntities /\ (AddRuns \/ NoteRuns)) =>
             UNCHANGED <<trackedEntities, trackedEntitiesRenderStatus,
                         sequenceNumbers>>]_vars


====
